---- MODULE Spec2Model ----
(***************************************************************************)
(* Citrine: lexer (src/src/lexer/mod.rs), CST parser over a rowan green    *)
(* tree builder (src/src/parser/mod.rs), reader and evaluator              *)
(* (src/src/reader/mod.rs), driven through eval_str (src/src/lib.rs).      *)
(*                                                                         *)
(* A source string is a sequence of one-character strings.  Every          *)
(* character of the model's alphabet is ASCII, so a char is one byte and   *)
(* byte offsets equal character counts (c.len_utf8() = 1).                 *)
(***************************************************************************)
EXTENDS Integers, Sequences, FiniteSets, TLC

VARIABLES input, phase, position, tokens, ppos, parents, children, tree,
          readResult, frames, evalResult, session, call, hash_hit

vars == <<input, phase, position, tokens, ppos, parents, children, tree,
          readResult, frames, evalResult, session, call, hash_hit>>

(***************************************************************************)
(* Bounds and the inputs of the model                                      *)
(***************************************************************************)
MaxLen == 3

Alphabet == {"(", ")", "[", "]", "1", " ", ",", "@", "'"}

RECURSIVE StringsUpTo(_)
StringsUpTo(n) ==
    IF n = 0 THEN {<<>>}
    ELSE LET shorter == StringsUpTo(n - 1)
         IN  shorter \cup {Append(s, c) : s \in {t \in shorter : Len(t) = n - 1}, c \in Alphabet}

\* Sources quoted by the specification, the tests and the claims.
SrcAdd ==
    <<"(","s","e","t","q"," ","a","d","d"," ","(","f","n"," ","[","a"," ","b","]"," ",
      "(","+"," ","a"," ","b",")",")",")"," ","(","a","d","d"," ","2"," ","3",")">>
SrcSetqAdd ==
    <<"(","s","e","t","q"," ","a","d","d"," ","(","f","n"," ","[","a"," ","b","]"," ",
      "(","+"," ","a"," ","b",")",")",")">>
SrcCallAdd == <<"(","a","d","d"," ","2"," ","3",")">>
SrcPlus12 == <<"(","+"," ","1"," ","2",")">>
SrcUnclosed2 == <<"(","1"," ","(","2">>
SrcUnclosedVec == <<"(","1"," ","[","2">>
SrcUnclosed1 == <<"(","1"," ","2">>
SrcTwoNumbers == <<"(","+"," ","1"," ","2",")"," ","(","+"," ","2"," ","3",")">>
SrcComment == <<";","c","\n","1">>
SrcString == <<"\"","a"," ","b","\"">>
SrcMap == <<"{",":","a"," ","1","}">>

Programs ==
    {SrcAdd, SrcSetqAdd, SrcCallAdd, SrcPlus12, SrcUnclosed2, SrcUnclosedVec,
     SrcUnclosed1, SrcTwoNumbers, SrcComment, SrcString, SrcMap}

Inputs == StringsUpTo(MaxLen) \cup Programs

\* Source text of a form: the parts separated by single spaces, in
\* parentheses.
RECURSIVE Join(_)
Join(parts) ==
    IF parts = <<>> THEN <<>>
    ELSE IF Len(parts) = 1 THEN parts[1]
    ELSE parts[1] \o <<" ">> \o Join(Tail(parts))

Form(parts) == <<"(">> \o Join(parts) \o <<")">>

WordSetq == <<"s","e","t","q">>
WordFn == <<"f","n">>
NoParams == <<"[","]">>

\* Sources evaluated one after the other in one environment:
\* (setq x a), (setq f (fn [] x)), (setq x b), (f).
ClosureSession(a, b) ==
    <<Form(<<WordSetq, <<"x">>, <<a>>>>),
      Form(<<WordSetq, <<"f">>, Form(<<WordFn, NoParams, <<"x">>>>)>>),
      Form(<<WordSetq, <<"x">>, <<b>>>>),
      Form(<<<<"f">>>>)>>

\* The closure is created before x is bound at all.
LateBindingSession(b) == SubSeq(ClosureSession("1", b), 2, 4)

ClosureSessions ==
    {ClosureSession(a, b) : a, b \in {"1", "2", "3"}}
        \cup {LateBindingSession(b) : b \in {"1", "2", "3"}}

\* (setq x a), (setq f (fn [] (setq x b))), (f), x: the setq of the body runs
\* in the frame of the call.
SetqInCallSession(a, b) ==
    <<Form(<<WordSetq, <<"x">>, <<a>>>>),
      Form(<<WordSetq, <<"f">>,
             Form(<<WordFn, NoParams, Form(<<WordSetq, <<"x">>, <<b>>>>)>>)>>),
      Form(<<<<"f">>>>),
      <<"x">>>>

\* (setq x a), (setq y (+ x b)): a second binding in the same frame.
SetqTwoSession(a, b) ==
    <<Form(<<WordSetq, <<"x">>, <<a>>>>),
      Form(<<WordSetq, <<"y">>, Form(<<<<"+">>, <<"x">>, <<b>>>>)>>)>>

\* setq forms with a wrong number of operands, by that number.
SetqArityForms ==
    {[src |-> Form(<<WordSetq>>), got |-> 0],
     [src |-> Form(<<WordSetq, <<"x">>>>), got |-> 1],
     [src |-> Form(<<WordSetq, <<"x">>, <<"1">>, <<"2">>>>), got |-> 3]}

\* setq forms whose first operand is not a symbol.
SetqTypeForms ==
    {Form(<<WordSetq, <<"1">>, <<"2">>>>),
     Form(<<WordSetq, <<":", "x">>, <<"2">>>>),
     Form(<<WordSetq, Form(<<<<"x">>>>), <<"2">>>>)}

\* (setq x 7) and then a setq form that fails.
SetqFailureSession(src) == <<Form(<<WordSetq, <<"x">>, <<"7">>>>), src>>

SetqSessions ==
    {SetqInCallSession(a, b) : a, b \in {"1", "2"}}
        \cup {SetqTwoSession(a, b) : a, b \in {"1", "2"}}
        \cup {SetqFailureSession(f.src) : f \in SetqArityForms}
        \cup {SetqFailureSession(src) : src \in SetqTypeForms}

Call(parts) == Form(parts)
Setq(name, src) == Form(<<WordSetq, name, src>>)
Fn(params, body) == Form(<<WordFn, <<"[">> \o Join(params) \o <<"]">>>> \o body)

\* g is created in the root frame and called from the body of h, whose
\* parameter is also called x.
LexicalScopeSession(a, b) ==
    <<Setq(<<"x">>, <<a>>),
      Setq(<<"g">>, Fn(<<>>, <<<<"x">>>>)),
      Setq(<<"h">>, Fn(<<<<"x">>>>, <<Call(<<<<"g">>>>)>>)),
      Call(<<<<"h">>, <<b>>>>)>>

\* k subtracts its second parameter from its first; it is then called with
\* two arguments, with one and with three.
PositionalSession(a, b) ==
    <<Setq(<<"k">>, Fn(<<<<"a">>, <<"b">>>>, <<Call(<<<<"-">>, <<"a">>, <<"b">>>>)>>)),
      Call(<<<<"k">>, <<a>>, <<b>>>>),
      Call(<<<<"k">>, <<a>>>>),
      Call(<<<<"k">>, <<a>>, <<b>>, <<a>>>>)>>

\* The body of m has two forms: (setq y a) and (+ y 1).
BodyOrderSession(a) ==
    <<Setq(<<"m">>, Fn(<<<<"a">>>>,
                       <<Setq(<<"y">>, <<"a">>), Call(<<<<"+">>, <<"y">>, <<"1">>>>)>>)),
      Call(<<<<"m">>, <<a>>>>)>>

ApplySessions ==
    {LexicalScopeSession(a, b) : a, b \in {"1", "2"}}
        \cup {PositionalSession(a, b) : a, b \in {"1", "3"}}
        \cup {BodyOrderSession(a) : a \in {"1", "2"}}

\* Sources whose evaluation fails on the unbound symbol zz, between two
\* setq forms or before one.
WordList == <<"l","i","s","t">>
SrcVectorFails ==
    <<"[">> \o Join(<<Setq(<<"a">>, <<"1">>), <<"z","z">>, Setq(<<"b">>, <<"2">>)>>) \o <<"]">>
SrcCallFails == Call(<<WordList, Setq(<<"a">>, <<"1">>), <<"z","z">>, Setq(<<"b">>, <<"2">>)>>)
SrcHeadFails == Call(<<<<"z","z">>, Setq(<<"a">>, <<"1">>)>>)
SrcTwoUnbound == Call(<<WordList, <<"z","z">>, <<"y","y">>>>)

\* The body of f fails between two setq forms; f is called between two
\* setq forms of a vector.
FailInBodySession ==
    <<Setq(<<"f">>, Fn(<<<<"p">>>>,
                       <<Setq(<<"c">>, <<"p">>), <<"z","z">>, Setq(<<"d">>, <<"p">>)>>)),
      <<"[">> \o Join(<<Setq(<<"a">>, <<"1">>), Call(<<<<"f">>, <<"2">>>>),
                         Setq(<<"b">>, <<"2">>)>>) \o <<"]">>>>

FailureSessions ==
    {<<SrcVectorFails>>, <<SrcCallFails>>, <<SrcHeadFails>>, <<SrcTwoUnbound>>,
     FailInBodySession}

\* Calls of not.
WordNot == <<"n","o","t">>
SrcNotFalse == Call(<<WordNot, <<"f","a","l","s","e">>>>)
SrcNotNil == Call(<<WordNot, <<"n","i","l">>>>)
SrcNotZero == Call(<<WordNot, <<"0">>>>)
SrcNotEqual == Call(<<WordNot, Call(<<<<"=">>, <<"1">>, <<"2">>>>)>>)
SrcNotFirstOfEmpty == Call(<<WordNot, Call(<<<<"f","i","r","s","t">>, Call(<<WordList>>)>>)>>)
SrcNotNoArgument == Call(<<WordNot>>)
SrcNotTwoArguments == Call(<<WordNot, <<"1">>, <<"2">>>>)

NotSources ==
    {SrcNotFalse, SrcNotNil, SrcNotZero, SrcNotEqual, SrcNotFirstOfEmpty,
     SrcNotNoArgument, SrcNotTwoArguments}

\* Calls of =.
Brackets(open, parts, close) == <<open>> \o Join(parts) \o <<close>>
SetOf(parts) == <<"#", "{">> \o Join(parts) \o <<"}">>
Eq(parts) == Call(<<<<"=">>>> \o parts)
SrcSetOfSet == SetOf(<<SetOf(<<<<"1">>>>)>>)

\* Calls whose arguments are all equal to one another.
EqualSources ==
    {Eq(<<<<"1">>, <<"1">>>>),
     Eq(<<<<"2">>, <<"2">>, <<"2">>>>),
     Eq(<<<<"\"", "a", "\"">>, <<"\"", "a", "\"">>>>),
     Eq(<<<<":", "a">>, <<":", "a">>>>),
     Eq(<<Call(<<WordList, <<"1">>, <<"2">>>>), Call(<<WordList, <<"1">>, <<"2">>>>)>>),
     Eq(<<Call(<<WordList>>), Call(<<WordList>>)>>),
     Eq(<<Brackets("[", <<<<"1">>, <<"2">>>>, "]"), Brackets("[", <<<<"1">>, <<"2">>>>, "]")>>),
     Eq(<<Brackets("{", <<<<":", "a">>, <<"1">>>>, "}"),
          Brackets("{", <<<<":", "a">>, <<"1">>>>, "}")>>),
     Eq(<<SetOf(<<<<"1">>, <<"2">>>>), SetOf(<<<<"2">>, <<"1">>>>)>>),
     Eq(<<SrcSetOfSet, SrcSetOfSet>>)}

\* Calls with two arguments that differ, or with a function.
UnequalSources ==
    {Eq(<<<<"1">>, <<"2">>>>),
     Eq(<<<<"1">>, <<"1">>, <<"2">>>>),
     Eq(<<<<"1">>, <<"2">>, <<"1">>>>),
     Eq(<<<<"1">>, <<":", "a">>>>),
     Eq(<<Call(<<WordList, <<"1">>>>), Brackets("[", <<<<"1">>>>, "]")>>),
     Eq(<<SetOf(<<<<"1">>, <<"2">>>>), SetOf(<<<<"1">>>>)>>),
     Eq(<<<<"+">>, <<"+">>>>)}

\* A closure compared with itself.
EqClosureSession == <<Setq(<<"f">>, Fn(<<>>, <<<<"1">>>>)), Eq(<<<<"f">>, <<"f">>>>)>>

\* Calls with fewer than two arguments.
SrcEqNoArgument == Eq(<<>>)
SrcEqOneArgument == Eq(<<<<"1">>>>)

EqSessions ==
    {<<src>> : src \in EqualSources \cup UnequalSources \cup {SrcEqNoArgument, SrcEqOneArgument}}
        \cup {EqClosureSession}

\* The sessions in which a value hashed by its address is looked up.
AddressHashSessions == {<<Eq(<<SrcSetOfSet, SrcSetOfSet>>)>>}

\* Calls of /.
Div(parts) == Call(<<<<"/">>>> \o parts)
KwA == <<":", "a">>

\* Calls with a zero divisor that no non-number argument precedes.
DivByZeroSources ==
    {Div(<<<<"0">>>>),
     Div(<<<<"1">>, <<"0">>>>),
     Div(<<<<"0">>, <<"0">>>>),
     Div(<<<<"6">>, <<"2">>, <<"0">>>>),
     Div(<<<<"6">>, <<"0">>, <<"2">>>>),
     Div(<<<<"6">>, <<"0">>, KwA>>)}

\* Calls with a non-number argument that no zero divisor precedes.
DivTypeSources ==
    {Div(<<KwA>>),
     Div(<<KwA, <<"0">>>>),
     Div(<<<<"6">>, KwA>>),
     Div(<<<<"6">>, KwA, <<"0">>>>),
     Div(<<<<"0">>, KwA>>)}

\* Calls that succeed, with the numerator and denominator of the result.
DivQuotients ==
    {[src |-> Div(<<<<"1","2">>, <<"2">>, <<"3">>>>), num |-> 2, den |-> 1],
     [src |-> Div(<<<<"2">>>>), num |-> 1, den |-> 2],
     [src |-> Div(<<<<"1">>>>), num |-> 1, den |-> 1],
     [src |-> Div(<<<<"0">>, <<"2">>>>), num |-> 0, den |-> 1],
     [src |-> Div(<<<<"6">>, <<"4">>>>), num |-> 3, den |-> 2],
     [src |-> Div(<<<<"1">>, <<"2">>, <<"2">>>>), num |-> 1, den |-> 4]}

SrcDivNoArgument == Div(<<>>)

DivSources ==
    DivByZeroSources \cup DivTypeSources \cup {q.src : q \in DivQuotients}
        \cup {SrcDivNoArgument}

\* Macros.
WordMacro == <<"m","a","c","r","o">>
MacroForm(params, body) == Form(<<WordMacro, <<"[">> \o Join(params) \o <<"]">>>> \o body)
SrcMacro == MacroForm(<<<<"x">>>>, <<Call(<<<<"q","u","o","t","e">>, <<"x">>>>)>>)

\* m is a macro whose body binds b; it is applied to an argument that
\* binds a.
MacroApplySession ==
    <<Setq(<<"m">>, MacroForm(<<<<"x">>>>, <<Setq(<<"b">>, <<"1">>)>>)),
      Call(<<<<"m">>, Setq(<<"a">>, <<"1">>)>>)>>

\* A macro applied to an argument whose evaluation fails.
SrcMacroBadArgument == Call(<<MacroForm(<<<<"x">>>>, <<<<"x">>>>), <<"z","z">>>>)

\* Values that are not functions, in head position.
NotCallableSources ==
    {Call(<<<<"1">>, <<"2">>>>),
     Call(<<<<"\"", "a", "\"">>>>),
     Call(<<KwA, <<"1">>>>),
     Call(<<Brackets("[", <<<<"1">>>>, "]"), <<"0">>>>),
     Call(<<Call(<<WordList, <<"1">>>>)>>)}

MacroSessions ==
    {<<SrcMacro>>, MacroApplySession, <<SrcMacroBadArgument>>}
        \cup {<<src>> : src \in NotCallableSources}

\* Sources with a minus sign.
SrcMinus5 == <<"-", "5">>
SrcMinus1Point5 == <<"-", "1", ".", "5">>
SrcMinus == <<"-">>
SrcMinusA == <<"-", "a">>
SrcMinusCall == <<"(", "-", " ", "5", " ", "2", ")">>

NegativeNumberSources == {SrcMinus5, SrcMinus1Point5}
MinusSymbolSources == {SrcMinus, SrcMinusA}
MinusSources == NegativeNumberSources \cup MinusSymbolSources \cup {SrcMinusCall}

\* Character literals.
CharacterNames ==
    {<<"n","e","w","l","i","n","e">>, <<"r","e","t","u","r","n">>, <<"s","p","a","c","e">>,
     <<"t","a","b">>, <<"f","o","r","m","f","e","e","d">>,
     <<"b","a","c","k","s","p","a","c","e">>}
NamedCharacterSources == {<<"\\">> \o name : name \in CharacterNames}
UnicodeSources == {<<"\\", "u", "0", "0", "e", "9">>, <<"\\", "u", "1", "2", "3", "4">>}
ShortUnicodeSources ==
    {<<"\\", "u">>, <<"\\", "u", "1", "2">>, <<"\\", "u", "1", "2", "3">>,
     <<"\\", "u", "1", "2", "g">>}
CharacterSources == NamedCharacterSources \cup UnicodeSources \cup ShortUnicodeSources

\* x and y are bound in the root frame; the body of f binds y and x again,
\* x being also its parameter.  f is called with a plain argument or with an
\* argument that binds x in the caller's frame.
SrcShadowFn ==
    Fn(<<<<"x">>>>, <<Setq(<<"y">>, <<"x">>), Setq(<<"x">>, <<"3">>), <<"y">>>>)
ShadowSession(arg) ==
    <<Setq(<<"x">>, <<"1">>), Setq(<<"y">>, <<"1">>), Setq(<<"f">>, SrcShadowFn),
      Call(<<<<"f">>, arg>>), <<"x">>, <<"y">>>>

\* The body of g binds y and then fails.
FailingBodySession ==
    <<Setq(<<"y">>, <<"1">>),
      Setq(<<"g">>, Fn(<<<<"y">>>>, <<Setq(<<"y">>, <<"2">>), <<"z","z">>>>)),
      Call(<<<<"g">>, <<"5">>>>), <<"y">>>>

\* mk returns a closure that captured the frame of the call of mk; the body
\* of that closure binds x, the parameter of mk.
CapturedFrameSession ==
    <<Setq(<<"m","k">>, Fn(<<<<"x">>>>, <<Fn(<<>>, <<Setq(<<"x">>, <<"7">>), <<"x">>>>)>>)),
      Setq(<<"h">>, Call(<<<<"m","k">>, <<"1">>>>)),
      Call(<<<<"h">>>>),
      Call(<<<<"h">>>>)>>

BodySessions ==
    {ShadowSession(<<"2">>), ShadowSession(Setq(<<"x">>, <<"2">>)),
     FailingBodySession, CapturedFrameSession}

\* The value of Body(x) for x the value of X, with X evaluated once
\* (LET x == X IN Body(x), for an X that is costly to evaluate).
Bind(X, Body(_)) == CHOOSE v \in {Body(x) : x \in {X}} : TRUE

(***************************************************************************)
(* Characters                                                              *)
(***************************************************************************)
NoChar == ""

\* The grave accent cannot be written in a string literal of this notation;
\* this string stands for that one character.
BacktickChar == "grave"

Digits == {"0", "1", "2", "3", "4", "5", "6", "7", "8", "9"}
Lower == {"a","b","c","d","e","f","g","h","i","j","k","l","m",
          "n","o","p","q","r","s","t","u","v","w","x","y","z"}
Upper == {"A","B","C","D","E","F","G","H","I","J","K","L","M",
          "N","O","P","Q","R","S","T","U","V","W","X","Y","Z"}
HexDigits == Digits \cup {"a","b","c","d","e","f","A","B","C","D","E","F"}

is_whitespace(c) == c \in {" ", "\n", "\t", "\r"}
is_ascii_digit(c) == c \in Digits
is_ascii_hexdigit(c) == c \in HexDigits

is_symbol_start(c) ==
    c \in Lower \cup Upper \cup {"!", "?", "-", "+", "<", ">", "=", "$", "*", "%", "_", "/"}

is_symbol_char(c) == is_symbol_start(c) \/ is_ascii_digit(c)

(***************************************************************************)
(* Lexer.  A lexer state is the position p: the number of bytes consumed.  *)
(***************************************************************************)
peek(s, p) == IF p < Len(s) THEN s[p + 1] ELSE NoChar

\* bump: the position after consuming one character, if there is one.
bump(s, p) == IF p < Len(s) THEN p + 1 ELSE p

RECURSIVE skip_whitespace(_, _)
\* A faulty skip_whitespace that also skips commas.
skip_whitespace_and_commas(s, p) ==
    IF peek(s, p) # NoChar /\ (is_whitespace(peek(s, p)) \/ peek(s, p) = ",")
    THEN skip_whitespace(s, bump(s, p))
    ELSE p

skip_whitespace(s, p) ==
    IF peek(s, p) # NoChar /\ is_whitespace(peek(s, p))
    THEN skip_whitespace(s, bump(s, p))
    ELSE p

Lexed(kind, p) == [kind |-> kind, pos |-> p]

RECURSIVE lex_comment(_, _)
lex_comment(s, p) ==
    IF peek(s, p) # NoChar /\ peek(s, p) # "\n"
    THEN lex_comment(s, bump(s, p))
    ELSE Lexed("Comment", p)

RECURSIVE lex_string(_, _, _)
lex_string(s, p, escaped) ==
    LET c == peek(s, p)
    IN  IF c = NoChar THEN Lexed("Error", p)
        ELSE IF escaped THEN lex_string(s, bump(s, p), FALSE)
        ELSE IF c = "\\" THEN lex_string(s, bump(s, p), TRUE)
        ELSE IF c = "\"" THEN Lexed("String", bump(s, p))
        ELSE lex_string(s, bump(s, p), FALSE)

\* input[position..].starts_with(word)
starts_with(s, p, word) ==
    /\ p + Len(word) <= Len(s)
    /\ \A i \in 1..Len(word) : s[p + i] = word[i]

RECURSIVE bump_n(_, _, _)
bump_n(s, p, n) == IF n = 0 THEN p ELSE bump_n(s, bump(s, p), n - 1)

\* One arm of lex_character for a named character: the first letter is
\* consumed, then the rest of the name if the lookahead test passes.
lex_named(s, p, second, word, count) ==
    LET p1 == bump(s, p)
    IN  IF peek(s, p1) = second /\ starts_with(s, p1, word)
        THEN Lexed("Character", bump_n(s, p1, count))
        ELSE Lexed("Character", p1)

RECURSIVE lex_unicode(_, _, _)
lex_unicode(s, p, n) ==
    IF n = 0 THEN Lexed("Character", p)
    ELSE IF peek(s, p) # NoChar /\ is_ascii_hexdigit(peek(s, p))
         THEN lex_unicode(s, bump(s, p), n - 1)
         ELSE Lexed("Error", p)

lex_character(s, p) ==
    LET c == peek(s, p)
    IN  CASE c = "n" -> lex_named(s, p, "e", <<"n","e","w","l","i","n","e">>, 6)
          [] c = "r" -> lex_named(s, p, "e", <<"r","e","t","u","r","n">>, 5)
          [] c = "s" -> lex_named(s, p, "p", <<"s","p","a","c","e">>, 4)
          [] c = "t" -> lex_named(s, p, "a", <<"t","a","b">>, 2)
          [] c = "f" -> lex_named(s, p, "o", <<"f","o","r","m","f","e","e","d">>, 7)
          [] c = "b" -> lex_named(s, p, "a", <<"b","a","c","k","s","p","a","c","e">>, 8)
          [] c = "u" -> lex_unicode(s, bump(s, p), 4)
          [] c = NoChar -> Lexed("Error", p)
          [] OTHER -> Lexed("Character", bump(s, p))

RECURSIVE lex_symbol_chars(_, _)
lex_symbol_chars(s, p) ==
    IF peek(s, p) # NoChar /\ is_symbol_char(peek(s, p))
    THEN lex_symbol_chars(s, bump(s, p))
    ELSE p

lex_keyword(s, p) == Lexed("Keyword", lex_symbol_chars(s, p))

lex_symbol(s, p) == Lexed("Symbol", lex_symbol_chars(s, p))

RECURSIVE lex_digits(_, _, _)
lex_digits(s, p, allowed) ==
    IF peek(s, p) # NoChar /\ peek(s, p) \in allowed
    THEN lex_digits(s, bump(s, p), allowed)
    ELSE p

lex_hex_number(s, p) ==
    LET q == lex_digits(s, p, HexDigits)
    IN  IF q = p THEN Lexed("Error", q) ELSE Lexed("Number", q)

lex_binary_number(s, p) ==
    LET q == lex_digits(s, p, {"0", "1"})
    IN  IF q = p THEN Lexed("Error", q) ELSE Lexed("Number", q)

next_is_digit(s, p) == peek(s, p) # NoChar /\ is_ascii_digit(peek(s, p))

RECURSIVE lex_decimal(_, _, _, _)
lex_decimal(s, p, has_decimal, has_exponent) ==
    LET c == peek(s, p)
        p1 == bump(s, p)
    IN  CASE c = NoChar -> Lexed("Number", p)
          [] c \in Digits -> lex_decimal(s, p1, has_decimal, has_exponent)
          [] c = "." /\ ~has_decimal /\ ~has_exponent ->
                IF next_is_digit(s, p1)
                THEN lex_decimal(s, p1, TRUE, has_exponent)
                ELSE Lexed("Error", p1)
          [] c \in {"e", "E"} /\ ~has_exponent ->
                LET p2 == IF peek(s, p1) \in {"+", "-"} THEN bump(s, p1) ELSE p1
                IN  IF next_is_digit(s, p2)
                    THEN lex_decimal(s, p2, has_decimal, TRUE)
                    ELSE Lexed("Error", p2)
          [] c \in {"N", "n", "L", "l"} -> Lexed("Number", p1)
          [] c = "/" /\ ~has_decimal /\ ~has_exponent ->
                IF next_is_digit(s, p1)
                THEN Lexed("Number", lex_digits(s, p1, Digits))
                ELSE Lexed("Error", p1)
          [] OTHER -> Lexed("Number", p)

lex_number(s, p, first) ==
    IF first = "0" /\ peek(s, p) \in {"x", "X"} THEN lex_hex_number(s, bump(s, p))
    ELSE IF first = "0" /\ peek(s, p) \in {"b", "B"} THEN lex_binary_number(s, bump(s, p))
    ELSE lex_decimal(s, p, FALSE, FALSE)

at_start_of_list == TRUE

\* The match of next_token on the first character c, consumed at p - 1.
lex_dispatch(s, p, c) ==
    CASE c = "(" -> Lexed("LeftParen", p)
      [] c = ")" -> Lexed("RightParen", p)
      [] c = "[" -> Lexed("LeftBracket", p)
      [] c = "]" -> Lexed("RightBracket", p)
      [] c = "{" -> Lexed("LeftBrace", p)
      [] c = "}" -> Lexed("RightBrace", p)
      [] c = "'" -> Lexed("Quote", p)
      [] c = BacktickChar -> Lexed("Backtick", p)
      [] c = "," -> IF peek(s, p) = "@" /\ at_start_of_list
                    THEN Lexed("TildeAt", bump(s, p))
                    ELSE Lexed("Comma", p)
      [] c = "~" -> IF peek(s, p) = "@"
                    THEN Lexed("TildeAt", bump(s, p))
                    ELSE Lexed("Tilde", p)
      [] c = "^" -> Lexed("Caret", p)
      [] c = "#" -> IF peek(s, p) = "{" THEN Lexed("HashLeftBrace", bump(s, p))
                    ELSE IF peek(s, p) = "_" THEN Lexed("Hash", bump(s, p))
                    ELSE Lexed("Hash", p)
      [] c = ";" -> lex_comment(s, p)
      [] c = "\"" -> lex_string(s, p, FALSE)
      [] c = "\\" -> lex_character(s, p)
      [] c = ":" -> lex_keyword(s, p)
      [] OTHER ->
            IF is_symbol_start(c) THEN lex_symbol(s, p)
            ELSE IF is_ascii_digit(c) \/ (c = "-" /\ next_is_digit(s, p))
                 THEN lex_number(s, p, c)
                 ELSE Lexed("Error", p)

Slice(s, from, to) == SubSeq(s, from + 1, to)

Token(kind, text, start, end) == [kind |-> kind, text |-> text, start |-> start, end |-> end]

\* A faulty next_token whose arm for an unknown character yields the Error
\* token without consuming the character.
next_token_error_not_consumed(s, p) ==
    LET start == skip_whitespace(s, p)
        c == peek(s, start)
        lexed == IF c = NoChar THEN Lexed("Eof", start)
                 ELSE IF c = "@" THEN Lexed("Error", start)
                 ELSE lex_dispatch(s, bump(s, start), c)
    IN  [token |-> Token(lexed.kind, Slice(s, start, lexed.pos), start, lexed.pos),
         pos |-> lexed.pos]

\* Lexer::next_token from position p: the token and the position after it.
next_token(s, p) ==
    LET start == skip_whitespace(s, p)
        c == peek(s, start)
        lexed == IF c = NoChar THEN Lexed("Eof", start)
                 ELSE lex_dispatch(s, bump(s, start), c)
    IN  [token |-> Token(lexed.kind, Slice(s, start, lexed.pos), start, lexed.pos),
         pos |-> lexed.pos]

(***************************************************************************)
(* Green tree builder (rowan::GreenNodeBuilder as the parser drives it).   *)
(* A green element stores its kind, its text (leaves) and its text length; *)
(* a node's length is fixed when the node is finished.  Offsets are not    *)
(* stored: the tree view derives them from the lengths (see RangeOf).      *)
(***************************************************************************)
RECURSIVE SumLen(_)
SumLen(elems) ==
    IF elems = <<>> THEN 0 ELSE elems[1].text_len + SumLen(Tail(elems))

GreenToken(kind, text) ==
    [leaf |-> TRUE, kind |-> kind, text |-> text, text_len |-> Len(text), children |-> <<>>]

\* A faulty node constructor that stores the number of children as the
\* node's text length.
GreenNode_length_is_child_count(kind, elems) ==
    [leaf |-> FALSE, kind |-> kind, text |-> <<>>, text_len |-> Len(elems), children |-> elems]

GreenNode(kind, elems) ==
    [leaf |-> FALSE, kind |-> kind, text |-> <<>>, text_len |-> SumLen(elems), children |-> elems]

\* A parser state: tokens consumed so far (pos is the index of the next
\* token), and the builder's stack of open nodes and list of elements.
start_node(st, kind) ==
    [st EXCEPT !.parents = Append(@, [kind |-> kind, first_child |-> Len(st.children)])]

builder_token(st, kind, text) ==
    [st EXCEPT !.children = Append(@, GreenToken(kind, text))]

finish_node(st) ==
    LET top == st.parents[Len(st.parents)]
        node == GreenNode(top.kind, SubSeq(st.children, top.first_child + 1, Len(st.children)))
    IN  [st EXCEPT !.parents = SubSeq(@, 1, Len(@) - 1),
                   !.children = Append(SubSeq(@, 1, top.first_child), node)]

\* GreenNodeBuilder::finish asserts that exactly one element is left and
\* that it is a node; otherwise it panics.
builder_finish_ok(st) == Len(st.children) = 1 /\ ~st.children[1].leaf

(***************************************************************************)
(* Parser                                                                  *)
(***************************************************************************)
NoToken == Token("None", <<>>, 0, 0)

token_to_syntax_kind(kind) ==
    CASE kind = "Quote" -> "QuoteToken"
      [] kind = "Backtick" -> "BacktickToken"
      [] kind = "Tilde" -> "TildeToken"
      [] kind = "TildeAt" -> "TildeAtToken"
      [] kind = "Caret" -> "CaretToken"
      [] kind = "Hash" -> "HashToken"
      [] kind = "HashLeftBrace" -> "HashLeftBraceToken"
      [] kind = "Comma" -> "CommaToken"
      [] kind = "Whitespace" -> "WhitespaceToken"
      [] kind = "Comment" -> "CommentToken"
      [] kind = "Error" -> "ErrorToken"
      [] OTHER -> kind

parser_peek(toks, st) == IF st.pos <= Len(toks) THEN toks[st.pos] ELSE NoToken

peek_nth(toks, st, n) == IF n = 0 THEN parser_peek(toks, st) ELSE NoToken

consume_token(toks, st) ==
    IF st.pos <= Len(toks)
    THEN [builder_token(st, token_to_syntax_kind(toks[st.pos].kind), toks[st.pos].text)
            EXCEPT !.pos = st.pos + 1]
    ELSE st

Ok(st) == [ok |-> TRUE, err |-> "none", st |-> st]
Err(e, st) == [ok |-> FALSE, err |-> e, st |-> st]

ClosingKinds == {"RightParen", "RightBracket", "RightBrace"}

RECURSIVE parse_form(_, _)
RECURSIVE parse_items(_, _, _)
RECURSIVE parse_map_items(_, _)

\* The closing part shared by parse_list, parse_vector, parse_map and
\* parse_set: consume the closing delimiter and finish the node.
parse_close(toks, st, close) ==
    LET t == parser_peek(toks, st)
    IN  IF t.kind = "None" THEN Err("UnexpectedEof", st)
        ELSE IF t.kind = close THEN Ok(finish_node(consume_token(toks, st)))
        ELSE Err("UnexpectedToken", st)

\* The loop `while let Some(token) = self.peek()` of parse_list,
\* parse_vector and parse_set.
parse_items(toks, st0, close) ==
    Bind(st0, LAMBDA st :
        LET t == parser_peek(toks, st)
        IN  IF t.kind = "None" \/ t.kind = close THEN Ok(st)
            ELSE Bind(parse_form(toks, st),
                      LAMBDA r : IF r.ok THEN parse_items(toks, r.st, close) ELSE r))

parse_delimited(toks, st, nodeKind, close) ==
    Bind(parse_items(toks, consume_token(toks, start_node(st, nodeKind)), close),
         LAMBDA r : IF r.ok THEN parse_close(toks, r.st, close) ELSE r)

parse_list(toks, st) == parse_delimited(toks, st, "List", "RightParen")

parse_vector(toks, st) == parse_delimited(toks, st, "Vector", "RightBracket")

parse_set(toks, st) == parse_delimited(toks, st, "Set", "RightBrace")

\* The key/value loop of parse_map.
parse_map_items(toks, st0) ==
    Bind(st0, LAMBDA st :
        LET t == parser_peek(toks, st)
        IN  IF t.kind = "None" \/ t.kind = "RightBrace" THEN Ok(st)
            ELSE Bind(parse_form(toks, st), LAMBDA k :
                    IF ~k.ok THEN k
                    ELSE LET t2 == parser_peek(toks, k.st)
                         IN  IF t2.kind = "None" THEN Err("UnexpectedEof", k.st)
                             ELSE IF t2.kind = "RightBrace" THEN Err("UnexpectedToken", k.st)
                             ELSE Bind(parse_form(toks, k.st), LAMBDA v :
                                    IF v.ok THEN parse_map_items(toks, v.st) ELSE v)))

parse_map(toks, st) ==
    Bind(parse_map_items(toks, consume_token(toks, start_node(st, "Map"))),
         LAMBDA r : IF r.ok THEN parse_close(toks, r.st, "RightBrace") ELSE r)

\* parse_quote, parse_backtick, parse_unquote, parse_unquote_splicing and
\* parse_tag: the prefix token, then one form.
parse_prefixed(toks, st, nodeKind) ==
    Bind(parse_form(toks, consume_token(toks, start_node(st, nodeKind))),
         LAMBDA r : IF r.ok THEN Ok(finish_node(r.st)) ELSE r)

parse_quote(toks, st) == parse_prefixed(toks, st, "Quote")
parse_backtick(toks, st) == parse_prefixed(toks, st, "Backtick")
parse_unquote(toks, st) == parse_prefixed(toks, st, "Unquote")
parse_unquote_splicing(toks, st) == parse_prefixed(toks, st, "UnquoteSplicing")
parse_tag(toks, st) == parse_prefixed(toks, st, "Tag")

parse_meta(toks, st) ==
    Bind(parse_form(toks, consume_token(toks, start_node(st, "Meta"))), LAMBDA m :
        IF ~m.ok THEN m
        ELSE Bind(parse_form(toks, m.st),
                  LAMBDA r : IF r.ok THEN Ok(finish_node(r.st)) ELSE r))

IsUnderscore(t) == t.kind = "Symbol" /\ t.text = <<"_">>

parse_discard(toks, st) ==
    LET s1 == consume_token(toks, start_node(st, "Discard"))
        t == parser_peek(toks, s1)
    IN  IF t.kind = "None" THEN Err("UnexpectedEof", s1)
        ELSE IF ~IsUnderscore(t) THEN Err("UnexpectedToken", s1)
        ELSE Bind(parse_form(toks, consume_token(toks, s1)),
                  LAMBDA r : IF r.ok THEN Ok(finish_node(r.st)) ELSE r)

\* parse_string, parse_number, parse_character, parse_keyword,
\* parse_symbol and the Comment arm of parse_form: a node around one token.
parse_literal(toks, st, nodeKind) ==
    Ok(finish_node(consume_token(toks, start_node(st, nodeKind))))

parse_string(toks, st) == parse_literal(toks, st, "StringLit")
parse_number(toks, st) == parse_literal(toks, st, "NumberLit")
parse_character(toks, st) == parse_literal(toks, st, "CharacterLit")
parse_keyword(toks, st) == parse_literal(toks, st, "KeywordLit")
parse_symbol(toks, st) == parse_literal(toks, st, "SymbolLit")

\* A faulty `_` arm that steps over the invalid token without adding a leaf.
parse_invalid_token_dropped(toks, st) == Ok([st EXCEPT !.pos = st.pos + 1])

\* The `_` arm of parse_form: an invalid token becomes a leaf of the open node.
parse_invalid(toks, st) == Ok(consume_token(toks, st))

parse_form(toks, st0) ==
    Bind(st0, LAMBDA st :
        LET t == parser_peek(toks, st)
            k == t.kind
        IN  CASE k = "None" -> Err("UnexpectedEof", st)
              [] k = "LeftParen" -> parse_list(toks, st)
              [] k = "LeftBracket" -> parse_vector(toks, st)
              [] k = "LeftBrace" -> parse_map(toks, st)
              [] k = "HashLeftBrace" -> parse_set(toks, st)
              [] k = "Quote" -> parse_quote(toks, st)
              [] k = "Backtick" -> parse_backtick(toks, st)
              [] k = "Tilde" -> parse_unquote(toks, st)
              [] k = "TildeAt" -> parse_unquote_splicing(toks, st)
              [] k = "Caret" -> parse_meta(toks, st)
              [] k = "Hash" -> IF IsUnderscore(peek_nth(toks, st, 1))
                               THEN parse_discard(toks, st)
                               ELSE parse_tag(toks, st)
              [] k = "String" -> parse_string(toks, st)
              [] k = "Number" -> parse_number(toks, st)
              [] k = "Character" -> parse_character(toks, st)
              [] k = "Keyword" -> parse_keyword(toks, st)
              [] k = "Symbol" -> parse_symbol(toks, st)
              [] k = "Comment" -> parse_literal(toks, st, "Comment")
              [] k = "Whitespace" -> Ok(consume_token(toks, st))
              [] k \in ClosingKinds -> Err("UnmatchedDelimiter", st)
              [] OTHER -> parse_invalid(toks, st))

RECURSIVE skip_until_delimiter(_, _)
skip_until_delimiter(toks, st0) ==
    Bind(st0, LAMBDA st :
        LET t == parser_peek(toks, st)
        IN  IF t.kind = "None" \/ t.kind \in ClosingKinds THEN st
            ELSE skip_until_delimiter(toks, consume_token(toks, st)))

\* One iteration of the loop of Parser::parse.
parse_iteration(toks, st) ==
    Bind(parse_form(toks, st),
         LAMBDA r : IF r.ok THEN r.st ELSE skip_until_delimiter(toks, r.st))

(***************************************************************************)
(* The tree view (rowan::SyntaxNode): ranges are derived from the lengths  *)
(* stored in the green tree, the root starting at offset 0.                *)
(***************************************************************************)
NoTree == GreenToken("None", <<>>)

\* Offset of child i of a node that starts at `start`.
ChildStart(node, start, i) == start + SumLen(SubSeq(node.children, 1, i - 1))

RangeOf(elem, start) == [start |-> start, end |-> start + elem.text_len]

RECURSIVE Leaves(_, _)
\* The leaves of the subtree of elem in tree order, each with its range.
Leaves(elem, start) ==
    IF elem.leaf
    THEN <<[kind |-> elem.kind, text |-> elem.text,
            start |-> start, end |-> start + elem.text_len]>>
    ELSE LET RECURSIVE Walk(_)
             Walk(i) == IF i > Len(elem.children) THEN <<>>
                        ELSE Leaves(elem.children[i], ChildStart(elem, start, i)) \o Walk(i + 1)
         IN  Walk(1)

RECURSIVE ConcatText(_)
ConcatText(elems) ==
    IF elems = <<>> THEN <<>> ELSE elems[1].text \o ConcatText(Tail(elems))

(***************************************************************************)
(* Values (src/src/reader/value.rs).  Every value is a record of the same  *)
(* shape; the tag t says which fields are meaningful.  A Number is the     *)
(* rational num/den in lowest terms (inputs are small decimals, for which  *)
(* f64 arithmetic is exact).  An environment handle is an index into the   *)
(* sequence of frames; 0 is no frame.                                      *)
(***************************************************************************)
NoFn == [params |-> <<>>, body |-> <<>>, env |-> 0, is_builtin |-> FALSE, builtin_fn |-> <<>>]

Val(t, b, num, den, str, items, fn) ==
    [t |-> t, b |-> b, num |-> num, den |-> den, s |-> str, items |-> items, fn |-> fn]

Nil == Val("Nil", FALSE, 0, 1, <<>>, <<>>, NoFn)
Boolean(b) == Val("Boolean", b, 0, 1, <<>>, <<>>, NoFn)
String(str) == Val("String", FALSE, 0, 1, str, <<>>, NoFn)
Symbol(str) == Val("Symbol", FALSE, 0, 1, str, <<>>, NoFn)
Keyword(str) == Val("Keyword", FALSE, 0, 1, str, <<>>, NoFn)
List(items) == Val("List", FALSE, 0, 1, <<>>, items, NoFn)
Vector(items) == Val("Vector", FALSE, 0, 1, <<>>, items, NoFn)
\* A Map holds its entries as the flat sequence k1, v1, k2, v2, ...
Map(items) == Val("Map", FALSE, 0, 1, <<>>, items, NoFn)
Set(items) == Val("Set", FALSE, 0, 1, <<>>, items, NoFn)

RECURSIVE Gcd(_, _)
Gcd(a, b) == IF b = 0 THEN a ELSE Gcd(b, a % b)

Abs(x) == IF x < 0 THEN -x ELSE x

\* The rational num/den (den # 0) in lowest terms with a positive denominator.
Ratio(num, den) ==
    LET g == Gcd(Abs(num), Abs(den))
        sgn == IF den < 0 THEN -1 ELSE 1
    IN  Val("Number", FALSE, sgn * (num \div g), Abs(den) \div g, <<>>, <<>>, NoFn)

Number(n) == Ratio(n, 1)

\* Function::new and Function::builtin, Macro::new
Function(params, body, env) ==
    Val("Function", FALSE, 0, 1, <<>>, <<>>,
        [params |-> params, body |-> body, env |-> env, is_builtin |-> FALSE, builtin_fn |-> <<>>])

Builtin(name) ==
    Val("Function", FALSE, 0, 1, <<>>, <<>>,
        [params |-> <<>>, body |-> <<>>, env |-> 0, is_builtin |-> TRUE, builtin_fn |-> name])

Macro(params, body, env) ==
    Val("Macro", FALSE, 0, 1, <<>>, <<>>,
        [params |-> params, body |-> body, env |-> env, is_builtin |-> FALSE, builtin_fn |-> <<>>])

\* impl Hash for Value: a Map, a Set, a Function or a Macro is hashed by the
\* address of the value, and so is every List or Vector that holds one.
RECURSIVE AddressHashed(_)
AddressHashed(v) ==
    \/ v.t \in {"Map", "Set", "Function", "Macro"}
    \/ /\ v.t \in {"List", "Vector"}
       /\ \E i \in 1..Len(v.items) : AddressHashed(v.items[i])

\* A lookup in a HashSet or HashMap compares the key with the elements whose
\* hash matches the key's.  A value that is not hashed by its address has the
\* hash of every value equal to it.  A value hashed by its address is looked
\* up at another address than the one it was stored from: whether the two
\* hashes select the same element is not determined by the program
\* (hash_hit).
HashMatches(k) == AddressHashed(k) => hash_hit

\* impl PartialEq for Value; for Set and Map, the == of HashSet and HashMap:
\* equal sizes, and every element (entry) of a is found by a lookup in b.
RECURSIVE ValueEq(_, _)
ValueEq(a, b) ==
    CASE a.t # b.t -> FALSE
      [] a.t = "Nil" -> TRUE
      [] a.t = "Boolean" -> a.b = b.b
      [] a.t = "Number" -> a.num = b.num /\ a.den = b.den
      [] a.t \in {"String", "Symbol", "Keyword"} -> a.s = b.s
      [] a.t \in {"List", "Vector"} ->
            /\ Len(a.items) = Len(b.items)
            /\ \A i \in 1..Len(a.items) : ValueEq(a.items[i], b.items[i])
      [] a.t = "Set" ->
            /\ Len(a.items) = Len(b.items)
            /\ \A i \in 1..Len(a.items) : \E j \in 1..Len(b.items) :
                  ValueEq(a.items[i], b.items[j]) /\ HashMatches(a.items[i])
      [] a.t = "Map" ->
            /\ Len(a.items) = Len(b.items)
            /\ \A i \in 1..Len(a.items) :
                  i % 2 = 1 => \E j \in 1..Len(b.items) :
                      /\ j % 2 = 1
                      /\ ValueEq(a.items[i], b.items[j]) /\ HashMatches(a.items[i])
                      /\ ValueEq(a.items[i + 1], b.items[j + 1])
      [] OTHER -> FALSE

DigitChar(d) == <<"0", "1", "2", "3", "4", "5", "6", "7", "8", "9">>[d + 1]

RECURSIVE FormatNat(_)
FormatNat(n) == IF n < 10 THEN <<DigitChar(n)>> ELSE FormatNat(n \div 10) \o <<DigitChar(n % 10)>>

\* Display of an f64 (`write!(f, "{}", n)`), for the integers and for the
\* numbers with one decimal digit: 5.0 prints as 5, 0.5 as 0.5, -2.0 as -2.
FormatNumber(v) ==
    (IF v.num < 0 THEN <<"-">> ELSE <<>>)
        \o (IF v.den = 1 THEN FormatNat(Abs(v.num))
            ELSE LET tenths == (Abs(v.num) * 10) \div v.den
                 IN  FormatNat(tenths \div 10) \o <<".">> \o <<DigitChar(tenths % 10)>>)

RECURSIVE print(_)
\* impl fmt::Debug for Value (Display is the same text).
print(v) ==
    LET RECURSIVE Each(_, _)
        Each(items, i) ==
            IF i > Len(items) THEN <<>>
            ELSE (IF i > 1 THEN <<" ">> ELSE <<>>) \o print(items[i]) \o Each(items, i + 1)
    IN  CASE v.t = "Nil" -> <<"n", "i", "l">>
          [] v.t = "Boolean" -> IF v.b THEN <<"t", "r", "u", "e">> ELSE <<"f", "a", "l", "s", "e">>
          [] v.t = "Number" -> FormatNumber(v)
          [] v.t = "String" -> <<"\"">> \o v.s \o <<"\"">>
          [] v.t = "Symbol" -> v.s
          [] v.t = "Keyword" -> <<":">> \o v.s
          [] v.t = "List" -> <<"(">> \o Each(v.items, 1) \o <<")">>
          [] v.t = "Vector" -> <<"[">> \o Each(v.items, 1) \o <<"]">>
          [] v.t = "Map" -> <<"{">> \o Each(v.items, 1) \o <<"}">>
          [] v.t = "Set" -> <<"#", "{">> \o Each(v.items, 1) \o <<"}">>
          [] v.t = "Function" -> <<"#", "<", "f", "u", "n", "c", "t", "i", "o", "n", ">">>
          [] OTHER -> <<"#", "<", "m", "a", "c", "r", "o", ">">>

\* EvalError
EvalError(kind, expected, got, what) ==
    [kind |-> kind, expected |-> expected, got |-> got, what |-> what]
NoError == EvalError("none", 0, 0, <<>>)
UnboundSymbol(name) == EvalError("UnboundSymbol", 0, 0, name)
NotCallable == EvalError("NotCallable", 0, 0, <<>>)
ArityMismatch(expected, got) == EvalError("ArityMismatch", expected, got, <<>>)
TypeError(expected) == EvalError("TypeError", 0, 0, expected)
SyntaxError(msg) == EvalError("SyntaxError", 0, 0, msg)
Other(msg) == EvalError("Other", 0, 0, msg)

(***************************************************************************)
(* Reader: read (src/src/reader/mod.rs)                                    *)
(***************************************************************************)
ROk(v) == [ok |-> TRUE, val |-> v, err |-> NoError]
RErr(e) == [ok |-> FALSE, val |-> Nil, err |-> e]

\* SyntaxNode::children: the child nodes, tokens left out.
NodeChildren(node) == SelectSeq(node.children, LAMBDA e : ~e.leaf)

\* SyntaxNode::text: the text of the leaves of the subtree.
NodeText(node) == ConcatText(Leaves(node, 0))

DigitValue(c) ==
    CASE c = "0" -> 0 [] c = "1" -> 1 [] c = "2" -> 2 [] c = "3" -> 3 [] c = "4" -> 4
      [] c = "5" -> 5 [] c = "6" -> 6 [] c = "7" -> 7 [] c = "8" -> 8 [] c = "9" -> 9

RECURSIVE DecimalValue(_)
DecimalValue(ds) ==
    IF ds = <<>> THEN 0
    ELSE 10 * DecimalValue(SubSeq(ds, 1, Len(ds) - 1)) + DigitValue(ds[Len(ds)])

RECURSIVE Pow10(_)
Pow10(n) == IF n = 0 THEN 1 ELSE 10 * Pow10(n - 1)

AllDigits(ds) == \A i \in 1..Len(ds) : ds[i] \in Digits

IndexOf(text, cs) ==
    IF \E i \in 1..Len(text) : text[i] \in cs
    THEN CHOOSE i \in 1..Len(text) : text[i] \in cs /\ \A j \in 1..(i - 1) : text[j] \notin cs
    ELSE 0

\* text.parse::<f64>() on the decimal forms: [-]digits[.digits][e[+|-]digits].
\* Any other text (hex, binary, ratio, N or L suffix) is rejected.
ParseF64(text) ==
    LET neg == text # <<>> /\ text[1] = "-"
        body == IF neg \/ (text # <<>> /\ text[1] = "+") THEN Tail(text) ELSE text
        e == IndexOf(body, {"e", "E"})
        mant == IF e = 0 THEN body ELSE SubSeq(body, 1, e - 1)
        expo == IF e = 0 THEN <<>> ELSE SubSeq(body, e + 1, Len(body))
        eneg == expo # <<>> /\ expo[1] = "-"
        edigits == IF expo # <<>> /\ expo[1] \in {"+", "-"} THEN Tail(expo) ELSE expo
        dot == IndexOf(mant, {"."})
        ipart == IF dot = 0 THEN mant ELSE SubSeq(mant, 1, dot - 1)
        fpart == IF dot = 0 THEN <<>> ELSE SubSeq(mant, dot + 1, Len(mant))
        wellFormed == /\ AllDigits(ipart) /\ AllDigits(fpart)
                      /\ Len(ipart) + Len(fpart) > 0
                      /\ AllDigits(edigits)
                      /\ (e # 0 => edigits # <<>>)
        m == DecimalValue(ipart \o fpart) * (IF neg THEN -1 ELSE 1)
        scale == Len(fpart)
        ex == DecimalValue(edigits) * (IF eneg THEN -1 ELSE 1)
        shift == ex - scale
    IN  IF ~wellFormed THEN RErr(SyntaxError(<<"Invalid number">>))
        ELSE IF shift >= 0 THEN ROk(Ratio(m * Pow10(shift), 1))
        ELSE ROk(Ratio(m, Pow10(-shift)))

SymQuote == <<"q","u","o","t","e">>
SymQuasiquote == <<"q","u","a","s","i","q","u","o","t","e">>
SymUnquote == <<"u","n","q","u","o","t","e">>
SymUnquoteSplicing == <<"u","n","q","u","o","t","e","-","s","p","l","i","c","i","n","g">>

\* HashMap::insert on the flat entry sequence: a key already present (by Eq)
\* gets the new value.
MapInsert(items, k, v) ==
    IF \E i \in 1..Len(items) : i % 2 = 1 /\ ValueEq(items[i], k) /\ HashMatches(k)
    THEN [i \in 1..Len(items) |->
            IF i % 2 = 0 /\ ValueEq(items[i - 1], k) THEN v ELSE items[i]]
    ELSE items \o <<k, v>>

\* HashSet::insert
SetInsert(items, v) ==
    IF \E i \in 1..Len(items) : ValueEq(items[i], v) /\ HashMatches(v)
    THEN items ELSE Append(items, v)

RECURSIVE read(_)
RECURSIVE read_each(_, _, _)
\* The loops `for child in node.children() { items.push(read(&child)?) }`:
\* the values read from nodes[i..], after acc, or the first error.
read_each(nodes, i, acc) ==
    IF i > Len(nodes) THEN ROk(List(acc))
    ELSE Bind(read(nodes[i]),
              LAMBDA r : IF r.ok THEN read_each(nodes, i + 1, Append(acc, r.val)) ELSE r)

\* A faulty Root arm that returns the List of the forms even when there is
\* exactly one.
read_root_always_list(r) == r

\* The end of the Root arm: r is the result of reading the child forms.
read_root(r) ==
    IF ~r.ok THEN r
    ELSE IF Len(r.val.items) = 1 THEN ROk(r.val.items[1])
    ELSE r

RECURSIVE MapFromItems(_, _)
MapFromItems(items, acc) ==
    IF Len(items) < 2 THEN acc
    ELSE MapFromItems(SubSeq(items, 3, Len(items)), MapInsert(acc, items[1], items[2]))

RECURSIVE SetFromItems(_, _)
SetFromItems(items, acc) ==
    IF items = <<>> THEN acc
    ELSE SetFromItems(Tail(items), SetInsert(acc, items[1]))

read(node0) ==
    Bind(node0, LAMBDA node :
        LET k == node.kind
            text == NodeText(node)
            kids == NodeChildren(node)
        IN  CASE k = "Root" ->
                    Bind(read_each(SelectSeq(kids, LAMBDA c : c.kind # "Eof"), 1, <<>>),
                         LAMBDA r : read_root(r))
              [] k = "NumberLit" -> ParseF64(text)
              [] k = "StringLit" -> ROk(String(SubSeq(text, 2, Len(text) - 1)))
              [] k = "SymbolLit" -> ROk(Symbol(text))
              [] k = "KeywordLit" -> ROk(Keyword(Tail(text)))
              [] k = "List" -> read_each(kids, 1, <<>>)
              [] k = "Vector" ->
                    Bind(read_each(kids, 1, <<>>),
                         LAMBDA r : IF r.ok THEN ROk(Vector(r.val.items)) ELSE r)
              [] k = "Map" ->
                    Bind(read_each(kids, 1, <<>>), LAMBDA r :
                        IF ~r.ok THEN r
                        ELSE IF Len(r.val.items) % 2 = 1
                             THEN RErr(SyntaxError(<<"Map literal must have an even number of forms">>))
                             ELSE ROk(Map(MapFromItems(r.val.items, <<>>))))
              [] k = "Set" ->
                    Bind(read_each(kids, 1, <<>>),
                         LAMBDA r : IF r.ok THEN ROk(Set(SetFromItems(r.val.items, <<>>))) ELSE r)
              [] k = "Quote" ->
                    read_each(SelectSeq(kids, LAMBDA c : c.kind # "Quote"), 1, <<Symbol(SymQuote)>>)
              [] k = "Backtick" ->
                    read_each(SelectSeq(kids, LAMBDA c : c.kind # "Backtick"), 1, <<Symbol(SymQuasiquote)>>)
              [] k = "Comma" ->
                    read_each(SelectSeq(kids, LAMBDA c : c.kind # "Comma"), 1, <<Symbol(SymUnquote)>>)
              [] k = "CommaAt" ->
                    read_each(SelectSeq(kids, LAMBDA c : c.kind # "CommaAt"), 1, <<Symbol(SymUnquoteSplicing)>>)
              [] OTHER ->
                    Bind(read_each(kids, 1, <<>>), LAMBDA r :
                        IF ~r.ok THEN r
                        ELSE IF Len(r.val.items) = 1 THEN ROk(r.val.items[1])
                        ELSE IF r.val.items = <<>> THEN ROk(Nil)
                        ELSE r))

(***************************************************************************)
(* Environment (src/src/reader/value.rs).  A frame is a record of its      *)
(* bindings (a function from names to values) and its outer handle.        *)
(***************************************************************************)
NoBindings == [name \in {} |-> Nil]

\* Environment::set on the frame with handle env
env_set(fr, env, key, val) ==
    [fr EXCEPT ![env].bindings =
        [name \in DOMAIN fr[env].bindings \cup {key} |->
            IF name = key THEN val ELSE fr[env].bindings[name]]]

RECURSIVE env_get(_, _, _)
\* Environment::get
env_get(fr, env, key) ==
    IF key \in DOMAIN fr[env].bindings
    THEN [found |-> TRUE, val |-> fr[env].bindings[key]]
    ELSE IF fr[env].outer # 0 THEN env_get(fr, fr[env].outer, key)
    ELSE [found |-> FALSE, val |-> Nil]

\* Environment::with_outer: the frames with a fresh empty frame added; its
\* handle is the new length.
with_outer(fr, outer) == Append(fr, [bindings |-> NoBindings, outer |-> outer])

BuiltinNames ==
    {<<"+">>, <<"-">>, <<"*">>, <<"/">>, <<"=">>, <<"<">>, <<">">>,
     <<"n","o","t">>, <<"l","i","s","t">>, <<"f","i","r","s","t">>, <<"r","e","s","t">>}

\* standard_env (src/src/lib.rs): one root frame holding the builtins.
standard_env ==
    <<[bindings |-> [name \in BuiltinNames |-> Builtin(name)], outer |-> 0]>>

RootEnv == 1

(***************************************************************************)
(* Builtins (the closures of standard_env)                                 *)
(***************************************************************************)
BOk(v) == [ok |-> TRUE, val |-> v, err |-> NoError]
BErr(e) == [ok |-> FALSE, val |-> Nil, err |-> e]

AllNumbers(args) == \A i \in 1..Len(args) : args[i].t = "Number"

RAdd(a, b) == Ratio(a.num * b.den + b.num * a.den, a.den * b.den)
RSub(a, b) == Ratio(a.num * b.den - b.num * a.den, a.den * b.den)
RMul(a, b) == Ratio(a.num * b.num, a.den * b.den)
RDiv(a, b) == Ratio(a.num * b.den, a.den * b.num)
RLess(a, b) == a.num * b.den < b.num * a.den

RECURSIVE FoldNumbers(_, _, _)
\* acc op args[1] op args[2] ..., for Op in {RAdd, RSub, RMul}
FoldNumbers(Op(_, _), acc, args) ==
    IF args = <<>> THEN acc ELSE FoldNumbers(Op, Op(acc, args[1]), Tail(args))

builtin_add(args) ==
    IF AllNumbers(args) THEN BOk(FoldNumbers(RAdd, Number(0), args))
    ELSE BErr(TypeError(<<"number">>))

builtin_sub(args) ==
    IF args = <<>> THEN BErr(ArityMismatch(1, 0))
    ELSE IF ~AllNumbers(args) THEN BErr(TypeError(<<"number">>))
    ELSE IF Len(args) = 1 THEN BOk(RSub(Number(0), args[1]))
    ELSE BOk(FoldNumbers(RSub, args[1], Tail(args)))

builtin_mul(args) ==
    IF AllNumbers(args) THEN BOk(FoldNumbers(RMul, Number(1), args))
    ELSE BErr(TypeError(<<"number">>))

RECURSIVE div_fold(_, _)
\* The loop over args[1..] of `/`: the first offending argument decides.
div_fold(acc, args) ==
    IF args = <<>> THEN BOk(acc)
    ELSE IF args[1].t # "Number" THEN BErr(TypeError(<<"number">>))
    ELSE IF args[1].num = 0 THEN BErr(Other(<<"Division by zero">>))
    ELSE div_fold(RDiv(acc, args[1]), Tail(args))

\* A faulty / that checks the types of all its arguments before it divides.
builtin_div_checks_types_first(args) ==
    IF args = <<>> THEN BErr(ArityMismatch(1, 0))
    ELSE IF ~AllNumbers(args) THEN BErr(TypeError(<<"number">>))
    ELSE IF Len(args) = 1
         THEN IF args[1].num = 0 THEN BErr(Other(<<"Division by zero">>))
              ELSE BOk(RDiv(Number(1), args[1]))
         ELSE div_fold(args[1], Tail(args))

builtin_div(args) ==
    IF args = <<>> THEN BErr(ArityMismatch(1, 0))
    ELSE IF args[1].t # "Number" THEN BErr(TypeError(<<"number">>))
    ELSE IF Len(args) = 1
         THEN IF args[1].num = 0 THEN BErr(Other(<<"Division by zero">>))
              ELSE BOk(RDiv(Number(1), args[1]))
         ELSE div_fold(args[1], Tail(args))

builtin_eq(args) ==
    IF Len(args) < 2 THEN BErr(ArityMismatch(2, Len(args)))
    ELSE BOk(Boolean(\A i \in 2..Len(args) : ValueEq(args[1], args[i])))

builtin_lt(args) ==
    IF Len(args) # 2 THEN BErr(ArityMismatch(2, Len(args)))
    ELSE IF AllNumbers(args) THEN BOk(Boolean(RLess(args[1], args[2])))
    ELSE BErr(TypeError(<<"number">>))

builtin_gt(args) ==
    IF Len(args) # 2 THEN BErr(ArityMismatch(2, Len(args)))
    ELSE IF AllNumbers(args) THEN BOk(Boolean(RLess(args[2], args[1])))
    ELSE BErr(TypeError(<<"number">>))

builtin_not(args) ==
    IF Len(args) # 1 THEN BErr(ArityMismatch(1, Len(args)))
    ELSE IF args[1].t = "Boolean" THEN BOk(Boolean(~args[1].b))
    ELSE IF args[1].t = "Nil" THEN BOk(Boolean(TRUE))
    ELSE BOk(Boolean(FALSE))

builtin_list(args) == BOk(List(args))

builtin_first(args) ==
    IF Len(args) # 1 THEN BErr(ArityMismatch(1, Len(args)))
    ELSE IF args[1].t \notin {"List", "Vector"} THEN BErr(TypeError(<<"list or vector">>))
    ELSE IF args[1].items = <<>> THEN BOk(Nil)
    ELSE BOk(args[1].items[1])

builtin_rest(args) ==
    IF Len(args) # 1 THEN BErr(ArityMismatch(1, Len(args)))
    ELSE IF args[1].t \notin {"List", "Vector"} THEN BErr(TypeError(<<"list or vector">>))
    ELSE IF args[1].items = <<>> THEN BOk(args[1])
    ELSE BOk([args[1] EXCEPT !.items = Tail(@)])

call_builtin(name, args) ==
    CASE name = <<"+">> -> builtin_add(args)
      [] name = <<"-">> -> builtin_sub(args)
      [] name = <<"*">> -> builtin_mul(args)
      [] name = <<"/">> -> builtin_div(args)
      [] name = <<"=">> -> builtin_eq(args)
      [] name = <<"<">> -> builtin_lt(args)
      [] name = <<">">> -> builtin_gt(args)
      [] name = <<"n","o","t">> -> builtin_not(args)
      [] name = <<"l","i","s","t">> -> builtin_list(args)
      [] name = <<"f","i","r","s","t">> -> builtin_first(args)
      [] name = <<"r","e","s","t">> -> builtin_rest(args)

(***************************************************************************)
(* Evaluator: eval and apply_function (src/src/reader/mod.rs).  A result   *)
(* carries the frames as the evaluation left them, also on an error.       *)
(***************************************************************************)
EOk(v, fr) == [ok |-> TRUE, val |-> v, err |-> NoError, frames |-> fr]
EErr(e, fr) == [ok |-> FALSE, val |-> Nil, err |-> e, frames |-> fr]

SymSetq == <<"s","e","t","q">>
SymFn == <<"f","n">>
SymMacro == <<"m","a","c","r","o">>

AllSymbols(items) == \A i \in 1..Len(items) : items[i].t = "Symbol"

ParamNames(items) == [i \in 1..Len(items) |-> items[i].s]

RECURSIVE eval(_, _, _)
RECURSIVE eval_each(_, _, _, _, _)
RECURSIVE eval_body(_, _, _, _, _)
RECURSIVE apply_function(_, _, _)

\* A faulty loop that evaluates the remaining items after an error and then
\* reports the first error.
eval_each_keeps_going(items, i, acc, env, fr) ==
    IF i > Len(items) THEN EOk(List(acc), fr)
    ELSE Bind(eval(items[i], env, fr), LAMBDA r :
            IF r.ok THEN eval_each(items, i + 1, Append(acc, r.val), env, r.frames)
            ELSE EErr(r.err, eval_each(items, i + 1, acc, env, r.frames).frames))

\* The loops `for item in items { result.push(eval(item, env)?) }`: the
\* values of items[i..] after acc (as a List), or the first error.
eval_each(items, i, acc, env, fr) ==
    IF i > Len(items) THEN EOk(List(acc), fr)
    ELSE Bind(eval(items[i], env, fr), LAMBDA r :
            IF r.ok THEN eval_each(items, i + 1, Append(acc, r.val), env, r.frames) ELSE r)

\* The loop over f.body of apply_function: the value of the last expression.
eval_body(body, i, last, env, fr) ==
    IF i > Len(body) THEN EOk(last, fr)
    ELSE Bind(eval(body[i], env, fr), LAMBDA r :
            IF r.ok THEN eval_body(body, i + 1, r.val, env, r.frames) ELSE r)

RECURSIVE bind_params(_, _, _, _)
\* A faulty binding of the parameters, written in the outer frame of the call
\* frame.
bind_params_in_outer_frame(fr, env, params, args) ==
    IF params = <<>> \/ args = <<>> THEN fr
    ELSE bind_params(env_set(fr, fr[env].outer, params[1], args[1]), env,
                     Tail(params), Tail(args))

bind_params(fr, env, params, args) ==
    IF params = <<>> \/ args = <<>> THEN fr
    ELSE bind_params(env_set(fr, env, params[1], args[1]), env, Tail(params), Tail(args))

\* A faulty call whose fresh frame has the most recent frame as its outer,
\* not the frame the closure captured.
call_closure_outer_is_last_frame(f, args, fr) ==
    IF Len(f.params) # Len(args) THEN EErr(ArityMismatch(Len(f.params), Len(args)), fr)
    ELSE LET fr1 == with_outer(fr, Len(fr))
             func_env == Len(fr1)
         IN  eval_body(f.body, 1, Nil, func_env, bind_params(fr1, func_env, f.params, args))

\* The arity check and the call of a closure in apply_function.
call_closure(f, args, fr) ==
    IF Len(f.params) # Len(args) THEN EErr(ArityMismatch(Len(f.params), Len(args)), fr)
    ELSE LET fr1 == with_outer(fr, f.env)
             func_env == Len(fr1)
         IN  eval_body(f.body, 1, Nil, func_env, bind_params(fr1, func_env, f.params, args))

apply_function(items, env, fr) ==
    IF items = <<>> THEN EErr(SyntaxError(<<"Empty function application">>), fr)
    ELSE Bind(eval(items[1], env, fr), LAMBDA func :
            IF ~func.ok THEN func
            ELSE Bind(eval_each(Tail(items), 1, <<>>, env, func.frames), LAMBDA args :
                    IF ~args.ok THEN args
                    ELSE CASE func.val.t = "Function" ->
                                IF func.val.fn.is_builtin
                                THEN LET b == call_builtin(func.val.fn.builtin_fn, args.val.items)
                                     IN  IF b.ok THEN EOk(b.val, args.frames)
                                         ELSE EErr(b.err, args.frames)
                                ELSE call_closure(func.val.fn, args.val.items, args.frames)
                           [] func.val.t = "Macro" ->
                                EErr(Other(<<"Macro application not yet implemented">>), args.frames)
                           [] OTHER -> EErr(NotCallable, args.frames)))

\* A faulty "fn" arm that captures a copy of the defining frame, taken when
\* the closure is created, instead of the frame itself.
make_closure_snapshot(is_macro, items, env, fr) ==
    IF Len(items) < 3 THEN EErr(ArityMismatch(2, Len(items) - 1), fr)
    ELSE IF items[2].t # "Vector" THEN EErr(TypeError(<<"vector">>), fr)
    ELSE IF ~AllSymbols(items[2].items) THEN EErr(TypeError(<<"symbol">>), fr)
    ELSE EOk(Function(ParamNames(items[2].items), SubSeq(items, 3, Len(items)), Len(fr) + 1),
             Append(fr, fr[env]))

\* The arms "fn" and "macro" of eval, which differ in the value they build.
make_closure(is_macro, items, env, fr) ==
    IF Len(items) < 3 THEN EErr(ArityMismatch(2, Len(items) - 1), fr)
    ELSE IF items[2].t # "Vector" THEN EErr(TypeError(<<"vector">>), fr)
    ELSE IF ~AllSymbols(items[2].items) THEN EErr(TypeError(<<"symbol">>), fr)
    ELSE IF is_macro
         THEN EOk(Macro(ParamNames(items[2].items), SubSeq(items, 3, Len(items)), env), fr)
         ELSE EOk(Function(ParamNames(items[2].items), SubSeq(items, 3, Len(items)), env), fr)

\* A faulty setq that writes the binding in the root frame.
eval_setq_in_root(items, env, fr) ==
    IF Len(items) # 3 THEN EErr(ArityMismatch(2, Len(items) - 1), fr)
    ELSE IF items[2].t # "Symbol" THEN EErr(TypeError(<<"symbol">>), fr)
    ELSE Bind(eval(items[3], env, fr), LAMBDA r :
            IF r.ok THEN EOk(r.val, env_set(r.frames, RootEnv, items[2].s, r.val)) ELSE r)

eval_setq(items, env, fr) ==
    IF Len(items) # 3 THEN EErr(ArityMismatch(2, Len(items) - 1), fr)
    ELSE IF items[2].t # "Symbol" THEN EErr(TypeError(<<"symbol">>), fr)
    ELSE Bind(eval(items[3], env, fr), LAMBDA r :
            IF r.ok THEN EOk(r.val, env_set(r.frames, env, items[2].s, r.val)) ELSE r)

RECURSIVE eval_map_entries(_, _, _, _, _)
eval_map_entries(items, i, acc, env, fr) ==
    IF i > Len(items) THEN EOk(Map(acc), fr)
    ELSE Bind(eval(items[i], env, fr), LAMBDA k :
            IF ~k.ok THEN k
            ELSE Bind(eval(items[i + 1], env, k.frames), LAMBDA v :
                    IF ~v.ok THEN v
                    ELSE eval_map_entries(items, i + 2, MapInsert(acc, k.val, v.val), env, v.frames)))

eval(value, env, fr0) ==
    Bind(fr0, LAMBDA fr :
        CASE value.t \in {"Nil", "Boolean", "Number", "String", "Keyword"} -> EOk(value, fr)
          [] value.t = "Symbol" ->
                LET b == env_get(fr, env, value.s)
                IN  IF b.found THEN EOk(b.val, fr) ELSE EErr(UnboundSymbol(value.s), fr)
          [] value.t = "List" ->
                IF value.items = <<>> THEN EOk(List(<<>>), fr)
                ELSE LET first == value.items[1]
                     IN  IF first.t = "Symbol" /\ first.s = SymSetq THEN eval_setq(value.items, env, fr)
                         ELSE IF first.t = "Symbol" /\ first.s = SymFn
                              THEN make_closure(FALSE, value.items, env, fr)
                         ELSE IF first.t = "Symbol" /\ first.s = SymMacro
                              THEN make_closure(TRUE, value.items, env, fr)
                         ELSE apply_function(value.items, env, fr)
          [] value.t = "Vector" ->
                Bind(eval_each(value.items, 1, <<>>, env, fr),
                     LAMBDA r : IF r.ok THEN EOk(Vector(r.val.items), r.frames) ELSE r)
          [] value.t = "Map" -> eval_map_entries(value.items, 1, <<>>, env, fr)
          [] value.t = "Set" ->
                Bind(eval_each(value.items, 1, <<>>, env, fr), LAMBDA r :
                    IF r.ok THEN EOk(Set(SetFromItems(r.val.items, <<>>)), r.frames) ELSE r)
          [] OTHER -> EOk(value, fr))

(***************************************************************************)
(* State machine: eval_str(input, env) step by step.                       *)
(***************************************************************************)
NoResult == [ok |-> FALSE, val |-> Nil, err |-> NoError]

TokenizeDone == tokens # <<>> /\ tokens[Len(tokens)].kind = "Eof"

ParserState == [pos |-> ppos, parents |-> parents, children |-> children]

\* Literal values, the texts of which are sources of the model.
Literals ==
    {Nil, Boolean(TRUE), Boolean(FALSE), Ratio(1, 2), Ratio(-3, 2),
     String(<<>>), String(<<"a">>), String(<<"a", " ", "b">>),
     Keyword(<<"a">>), Keyword(<<"k", "w">>)}
        \cup {Number(n) : n \in -2..12}

\* Values x for the forms (quote x): a symbol that is not bound, a number,
\* a list that would be a call, the empty list.
Quoted ==
    {Symbol(<<"y">>), Number(1), List(<<Symbol(<<"+">>), Number(1), Number(2)>>), List(<<>>)}

QuoteSource(x) == Form(<<SymQuote, print(x)>>)

\* The reader macros: the prefix in the source and the symbol that heads
\* the list it stands for.
ReaderMacros ==
    {[prefix |-> <<"'">>, head |-> SymQuote],
     [prefix |-> <<BacktickChar>>, head |-> SymQuasiquote],
     [prefix |-> <<"~">>, head |-> SymUnquote],
     [prefix |-> <<"~", "@">>, head |-> SymUnquoteSplicing]}

\* `(1 2 ~x)
SrcBacktickList == <<BacktickChar, "(", "1", " ", "2", " ", "~", "x", ")">>

\* ''y
SrcQuoteQuote == <<"'", "'", "y">>

ReaderMacroSources ==
    {m.prefix \o print(x) : m \in ReaderMacros, x \in Quoted}
        \cup {SrcBacktickList, SrcQuoteQuote}

\* Map literals with an odd and with an even number of forms.
SrcMapOdd1 == <<"{", ":", "a", "}">>
SrcMapOdd3 == <<"{", ":", "a", " ", "1", " ", ":", "b", "}">>
SrcMapEven4 == <<"{", ":", "a", " ", "1", " ", ":", "b", " ", "2", "}">>

OddMapSources == {SrcMapOdd1, SrcMapOdd3}

\* Sources with a lexical error: an unterminated string, an illegal
\* character inside a list.
SrcUnterminated == <<"\"", "a">>
SrcIllegalInList == <<"(", "1", " ", "@", " ", "2", ")">>

\* Sources with trivia: a comment after a form, a comment inside a list,
\* whitespace around and inside a list.
SrcCommentAfter == <<"1", " ", ";", "c">>
SrcCommentInList == <<"(", "1", " ", ";", "c", "\n", " ", "2", ")">>
SrcSpacedList == <<" ", "(", " ", "1", " ", " ", "2", " ", ")", "\n">>

TriviaSources == {SrcCommentAfter, SrcCommentInList, SrcSpacedList}

\* Sources with a discarded form.
SrcDiscardInList == <<"(", "1", " ", "#", "_", " ", "2", " ", "3", ")">>
SrcDiscardTop == <<"#", "_", "1", " ", "2">>

DiscardSources == {SrcDiscardInList, SrcDiscardTop}

\* The sequences of sources that a caller passes to eval_str, one call after
\* the other, with the same environment.
Sessions ==
    {<<s>> : s \in Inputs} \cup ClosureSessions \cup {<<print(v)>> : v \in Literals}
        \cup {<<QuoteSource(x)>> : x \in Quoted}
        \cup {<<src>> : src \in ReaderMacroSources}
        \cup {<<src>> : src \in OddMapSources \cup {SrcMapEven4}}
        \cup {<<SrcUnterminated>>, <<SrcIllegalInList>>}
        \cup {<<src>> : src \in TriviaSources \cup DiscardSources}
        \cup SetqSessions \cup ApplySessions \cup FailureSessions
        \cup {<<src>> : src \in NotSources}
        \cup EqSessions
        \cup {<<src>> : src \in DivSources}
        \cup MacroSessions
        \cup {<<src>> : src \in MinusSources \cup CharacterSources}
        \cup BodySessions

Init ==
    /\ session \in Sessions
    /\ hash_hit \in (IF session \in AddressHashSessions THEN BOOLEAN ELSE {FALSE})
    /\ call = 1
    /\ input = session[1]
    /\ phase = "lex"
    /\ position = 0
    /\ tokens = <<>>
    /\ ppos = 0
    /\ parents = <<>>
    /\ children = <<>>
    /\ tree = NoTree
    /\ readResult = NoResult
    /\ frames = standard_env
    /\ evalResult = NoResult

\* One turn of the loop of Lexer::tokenize.
NextToken ==
    /\ phase = "lex"
    /\ ~TokenizeDone
    /\ \E r \in {next_token(input, position)} :
           /\ tokens' = Append(tokens, r.token)
           /\ position' = r.pos
    /\ UNCHANGED <<input, phase, ppos, parents, children, tree, readResult, frames, evalResult, session, call, hash_hit>>

\* Parser::new returns and Parser::parse opens the Root node.
ParseBegin ==
    /\ phase = "lex"
    /\ TokenizeDone
    /\ phase' = "parse"
    /\ ppos' = 1
    /\ parents' = <<[kind |-> "Root", first_child |-> 0]>>
    /\ children' = <<>>
    /\ UNCHANGED <<input, position, tokens, tree, readResult, frames, evalResult, session, call, hash_hit>>

\* One turn of the loop of Parser::parse: parse_form, and on an error
\* skip_until_delimiter.
ParseIteration ==
    /\ phase = "parse"
    /\ parser_peek(tokens, ParserState).kind # "None"
    /\ \E st \in {parse_iteration(tokens, ParserState)} :
           /\ ppos' = st.pos
           /\ parents' = st.parents
           /\ children' = st.children
    /\ UNCHANGED <<input, phase, position, tokens, tree, readResult, frames, evalResult, session, call, hash_hit>>

\* The end of Parser::parse: finish_node, builder.finish, new_root.
ParseFinish ==
    /\ phase = "parse"
    /\ parser_peek(tokens, ParserState).kind = "None"
    /\ \E st \in {finish_node(ParserState)} :
           /\ parents' = st.parents
           /\ children' = st.children
           /\ IF builder_finish_ok(st)
              THEN phase' = "parsed" /\ tree' = st.children[1]
              ELSE phase' = "panic" /\ tree' = tree
    /\ UNCHANGED <<input, position, tokens, ppos, readResult, frames, evalResult, session, call, hash_hit>>

\* read_str: reader::read on the tree that parse returned.
Read ==
    /\ phase = "parsed"
    /\ \E r \in {read(tree)} : readResult' = r
    /\ phase' = "read"
    /\ UNCHANGED <<input, position, tokens, ppos, parents, children, tree, frames, evalResult, session, call, hash_hit>>

\* eval_str: `read_str(input)?`, then reader::eval in the given environment.
Eval ==
    /\ phase = "read"
    /\ IF readResult.ok
       THEN \E r \in {eval(readResult.val, RootEnv, frames)} :
                /\ evalResult' = [ok |-> r.ok, val |-> r.val, err |-> r.err]
                /\ frames' = r.frames
       ELSE /\ evalResult' = readResult
            /\ frames' = frames
    /\ phase' = "done"
    /\ UNCHANGED <<input, position, tokens, ppos, parents, children, tree, readResult,
                   session, call, hash_hit>>

\* The caller's next call of eval_str, on the next source and with the same
\* environment: a new Lexer and a new Parser, the frames as they are.
NextCall ==
    /\ phase = "done"
    /\ call < Len(session)
    /\ call' = call + 1
    /\ input' = session[call + 1]
    /\ phase' = "lex"
    /\ position' = 0
    /\ tokens' = <<>>
    /\ ppos' = 0
    /\ parents' = <<>>
    /\ children' = <<>>
    /\ tree' = NoTree
    /\ readResult' = NoResult
    /\ evalResult' = NoResult
    /\ UNCHANGED <<frames, session, hash_hit>>

Next ==
    NextToken \/ ParseBegin \/ ParseIteration \/ ParseFinish \/ Read \/ Eval \/ NextCall

Spec == Init /\ [][Next]_vars

FairSpec == Spec /\ WF_vars(Next)

(***************************************************************************)
(* Properties                                                              *)
(***************************************************************************)
ParseReturned == phase \in {"parsed", "read", "done"}

TreeLeaves == Leaves(tree, 0)

\* Under FairSpec (the parser keeps taking steps while a step changes its
\* state), parse eventually returns a tree.
ParseEventuallyReturns == <>ParseReturned

\* C1: parse(source) terminates and returns a tree for every input string:
\* every turn of the loop of parse consumes at least one token, so that the
\* loop ends after at most Len(tokens) turns (the parser's state is changed
\* by nothing else, so a turn that consumes nothing repeats forever), and
\* the end of parse never panics.
C1_ParseAlwaysReturnsTree ==
    /\ phase # "panic"
    /\ (phase = "parse" /\ parser_peek(tokens, ParserState).kind # "None")
          => parse_iteration(tokens, ParserState).pos > ppos

\* C2: the in-order concatenation of the text of all leaves of parse(s)
\* equals s exactly, and the Root node spans [0, len(s)).
C2_TreeIsLossless ==
    ParseReturned =>
        /\ ConcatText(TreeLeaves) = input
        /\ tree.kind = "Root"
        /\ RangeOf(tree, 0) = [start |-> 0, end |-> Len(input)]

\* C3: the token stream of tokenize(s) fully partitions s: the first token
\* starts at 0, each token starts where the previous one ends, and the
\* texts of the non-Eof tokens concatenate to s.
C3_TokensPartitionInput ==
    TokenizeDone =>
        /\ tokens[1].start = 0
        /\ \A i \in 1..(Len(tokens) - 1) : tokens[i].end = tokens[i + 1].start
        /\ ConcatText(SelectSeq(tokens, LAMBDA t : t.kind # "Eof")) = input

\* C4: tokenize(s) terminates and never fails: the lexer's position never
\* passes the end of the input, every token other than Eof has end > start
\* (so each call of next_token before the end of the input consumes at least
\* one byte and at most Len(input) + 1 tokens are produced, also when the
\* input is malformed and yields an Error token), an Eof token is only ever
\* the last token, and tokenize returns only with an Eof token last.
C4_TokenizeTerminatesWithOneEof ==
    /\ position <= Len(input)
    /\ Len(tokens) <= Len(input) + 1
    /\ \A i \in 1..Len(tokens) :
          /\ tokens[i].kind # "Eof" => tokens[i].end > tokens[i].start
          /\ tokens[i].kind = "Eof" => i = Len(tokens)
    /\ phase # "lex" => TokenizeDone

C4_Witness ==
    /\ phase = "parse"
    /\ Len(tokens) = 3
    /\ \E i \in 1..Len(tokens) : tokens[i].kind = "Error"

\* The leaves of a sequence of green elements, in tree order.
RECURSIVE LeavesOfAll(_)
LeavesOfAll(elems) ==
    IF elems = <<>> THEN <<>> ELSE Leaves(elems[1], 0) \o LeavesOfAll(Tail(elems))

KindAndText(seq, Kind(_)) == [i \in 1..Len(seq) |-> <<Kind(seq[i].kind), seq[i].text>>]

SameKind(k) == k

\* C5: loss-free parsing: the leaves of the tree that parse returns are, in
\* tree order, exactly the tokens of the lexer in lexer order (kind and
\* text), none dropped and none duplicated, invalid tokens and tokens met
\* after a parse error included; and while parse runs, the leaves built so
\* far are exactly the tokens consumed so far.
C5_EveryTokenIsOneLeaf ==
    /\ ParseReturned =>
          KindAndText(TreeLeaves, SameKind) = KindAndText(tokens, token_to_syntax_kind)
    /\ phase = "parse" =>
          KindAndText(LeavesOfAll(children), SameKind)
              = KindAndText(SubSeq(tokens, 1, ppos - 1), token_to_syntax_kind)

C5_Witness ==
    /\ ParseReturned
    /\ tree.kind = "List"
    /\ \E i \in 1..Len(TreeLeaves) : TreeLeaves[i].kind \in {"ErrorToken", "CommaToken"}

OpenForms == {"List", "Vector", "Map", "Set"}

\* C6: when the end of the input is reached while delimited forms are still
\* open, parse closes them all and returns a tree whose root has kind Root.
C6_EofClosesOpenForms ==
    [][(/\ phase = "parse"
        /\ parser_peek(tokens, ParserState).kind = "None"
        /\ Len(parents) > 1
        /\ \A i \in 2..Len(parents) : parents[i].kind \in OpenForms)
       => (phase' = "parsed" /\ tree'.kind = "Root")]_vars

CloserOf(kind) ==
    CASE kind = "List" -> "RightParen"
      [] kind = "Vector" -> "RightBracket"
      [] OTHER -> "RightBrace"

\* C7: a closing delimiter that does not match the open form closes that
\* form: the parser is never left in front of a closing delimiter with the
\* form that it does not match still open.
C7_MismatchedCloserClosesForm ==
    ~(/\ phase = "parse"
      /\ parents[Len(parents)].kind \in OpenForms
      /\ parser_peek(tokens, ParserState).kind \in ClosingKinds
      /\ parser_peek(tokens, ParserState).kind # CloserOf(parents[Len(parents)].kind))

RECURSIVE WellFormed(_, _)
\* Every composite node of the subtree of elem, which starts at `start`,
\* spans from the start of its first leaf to the end of its last leaf, and
\* each of its children starts where the previous one ends.
WellFormed(elem, start) ==
    \/ elem.leaf
    \/ /\ LET ls == Leaves(elem, start)
              range == RangeOf(elem, start)
          IN  ls # <<>> => /\ range.start = ls[1].start
                           /\ range.end = ls[Len(ls)].end
       /\ \A i \in 1..(Len(elem.children) - 1) :
             RangeOf(elem.children[i], ChildStart(elem, start, i)).end
                 = ChildStart(elem, start, i + 1)
       /\ \A i \in 1..Len(elem.children) :
             WellFormed(elem.children[i], ChildStart(elem, start, i))

C9_OffsetsOverTokenTexts ==
    ParseReturned =>
        /\ \A i \in 1..Len(TreeLeaves) :
              TreeLeaves[i].start = Len(ConcatText(SubSeq(TreeLeaves, 1, i - 1)))
        /\ input = SrcPlus12 =>
              /\ RangeOf(tree, 0) = [start |-> 0, end |-> 5]
              /\ [i \in 1..5 |-> <<TreeLeaves[i].start, TreeLeaves[i].end>>]
                     = <<<<0, 1>>, <<1, 2>>, <<2, 3>>, <<3, 4>>, <<4, 5>>>>
        /\ tree.kind = "Root"
        /\ LET last == tree.children[Len(tree.children)]
           IN  /\ last.leaf
               /\ last.kind = "Eof"
               /\ last.text_len = 0
               /\ ChildStart(tree, 0, Len(tree.children)) = RangeOf(tree, 0).end

\* C10: eval_str on a source with several top-level forms evaluates them in
\* order and returns the value of the last one:
\* "(setq add (fn [a b] (+ a b))) (add 2 3)" on a standard environment
\* returns Number(5) and leaves add bound to the function.
C10_EvalStrSeveralForms ==
    (input = SrcAdd /\ phase = "done") =>
        /\ evalResult.ok
        /\ evalResult.val = Number(5)
        /\ env_get(frames, RootEnv, <<"a", "d", "d">>).found
        /\ env_get(frames, RootEnv, <<"a", "d", "d">>).val.t = "Function"

SessionDone(sess) == session = sess /\ call = Len(sess) /\ phase = "done"

\* C11: a closure references its defining frame: after (setq x a),
\* (setq f (fn [] x)), (setq x b) in one environment, the call (f) returns
\* b, the value bound to x at the time of the call (2 for a = 1 and b = 2),
\* also when x was bound only after the closure was created.
C11_ClosureSeesLaterBindings ==
    /\ SessionDone(ClosureSession("1", "2")) =>
          evalResult.ok /\ evalResult.val = Number(2)
    /\ \A a, b \in {"1", "2", "3"} :
          (SessionDone(ClosureSession(a, b)) \/ SessionDone(LateBindingSession(b))) =>
              /\ evalResult.ok
              /\ evalResult.val = Number(DigitValue(b))
              /\ env_get(frames, RootEnv, <<"x">>).val = Number(DigitValue(b))

C11_Witness ==
    /\ SessionDone(ClosureSession("1", "2"))
    /\ evalResult.val = Number(2)

\* C12: read-eval self-evaluation: for every literal value v (nil, true,
\* false, a number, a string, a keyword), printing v, reading the printed
\* text and evaluating the result in a standard environment returns a value
\* equal to v.
C12_LiteralsSelfEvaluate ==
    \A v \in Literals :
        SessionDone(<<print(v)>>) => evalResult.ok /\ ValueEq(evalResult.val, v)

\* C13: quote is a special form: evaluating the list (quote x) returns x
\* itself, not evaluated ((quote y) with y unbound returns Symbol("y")), and
\* leaves the environment unchanged.
C13_QuoteReturnsOperand ==
    \A x \in Quoted :
        SessionDone(<<QuoteSource(x)>>) =>
            /\ evalResult.ok /\ ValueEq(evalResult.val, x)
            /\ frames = standard_env

ReadGives(src, v) == SessionDone(<<src>>) => readResult.ok /\ ValueEq(readResult.val, v)

\* C14: for every form x, the reader turns 'x, `x, ~x and ~@x into the
\* two-element lists (quote X), (quasiquote X), (unquote X) and
\* (unquote-splicing X), X being the value read from x, also when x is a
\* reader-macro form itself; read_str of "`(1 2 ~x)" is
\* (quasiquote (1 2 (unquote x))).
C14_ReaderMacrosBecomeLists ==
    /\ \A m \in ReaderMacros, x \in Quoted :
          ReadGives(m.prefix \o print(x), List(<<Symbol(m.head), x>>))
    /\ ReadGives(SrcQuoteQuote,
                 List(<<Symbol(SymQuote), List(<<Symbol(SymQuote), Symbol(<<"y">>)>>)>>))
    /\ ReadGives(SrcBacktickList,
                 List(<<Symbol(SymQuasiquote),
                        List(<<Number(1), Number(2),
                               List(<<Symbol(SymUnquote), Symbol(<<"x">>)>>)>>)>>))

\* C15: a map literal with an odd number of forms is still parsed into a
\* tree (every turn of the loop of parse consumes a token and parse does not
\* panic), its Map node holds the odd final form, and read_str on it returns
\* Err(SyntaxError); a map literal with an even number of forms reads as the
\* Map of its consecutive key/value pairs.
C15_OddMapIsRejectedByReader ==
    /\ session[1] \in OddMapSources =>
          /\ phase # "panic"
          /\ (phase = "parse" /\ parser_peek(tokens, ParserState).kind # "None")
                => parse_iteration(tokens, ParserState).pos > ppos
          /\ ParseReturned =>
                /\ tree.kind = "Root"
                /\ tree.children[1].kind = "Map"
                /\ Len(NodeChildren(tree.children[1])) % 2 = 1
          /\ phase \in {"read", "done"} =>
                ~readResult.ok /\ readResult.err.kind = "SyntaxError"
    /\ ReadGives(SrcMap, Map(<<Keyword(<<"a">>), Number(1)>>))
    /\ ReadGives(SrcMapEven4,
                 Map(<<Keyword(<<"a">>), Number(1), Keyword(<<"b">>), Number(2)>>))

\* The tree that parse returned holds an error: a leaf made from a lexical
\* Error token, or a form that was left unclosed when parse_form failed.
TreeHasError ==
    \/ \E i \in 1..Len(TreeLeaves) : TreeLeaves[i].kind = "ErrorToken"
    \/ tree.kind # "Root"

\* C16: read_str fails with SyntaxError, and never returns Ok, for every
\* source whose syntax tree contains an error: a lexical Error token or a
\* form produced by the parser's error recovery.
C16_ErrorInTreeFailsRead ==
    (phase \in {"read", "done"} /\ TreeHasError) =>
        ~readResult.ok /\ readResult.err.kind = "SyntaxError"

\* C17: the reader ignores trivia: a source with comments or whitespace
\* added before, between or after its forms, at top level or inside a
\* collection, reads as the source without them (1 for "1" with a comment
\* before or after it, (1 2) for "(1 2)" with a comment or more whitespace
\* inside); a comment contributes no element to the enclosing sequence.
C17_ReaderIgnoresTrivia ==
    /\ ReadGives(SrcSpacedList, List(<<Number(1), Number(2)>>))
    /\ ReadGives(SrcComment, Number(1))
    /\ ReadGives(SrcCommentAfter, Number(1))
    /\ ReadGives(SrcCommentInList, List(<<Number(1), Number(2)>>))

\* The nodes of kind k in the tree n, the tree itself included.
RECURSIVE NodesOfKind(_, _)
NodesOfKind(n, k) ==
    IF n.leaf THEN {}
    ELSE (IF n.kind = k THEN {n} ELSE {})
        \cup UNION {NodesOfKind(n.children[i], k) : i \in 1..Len(n.children)}

\* C18: "#_" followed by a form is parsed as a Discard node and the reader
\* leaves the discarded form out: "(1 #_ 2 3)" reads as (1 3), "#_1 2" as 2.
C18_DiscardedFormIsOmitted ==
    /\ \A src \in DiscardSources :
           (session = <<src>> /\ ParseReturned) => NodesOfKind(tree, "Discard") # {}
    /\ ReadGives(SrcDiscardInList, List(<<Number(1), Number(3)>>))
    /\ ReadGives(SrcDiscardTop, Number(2))

\* The child forms of the Root node of the tree read by read_str.
RootForms == SelectSeq(NodeChildren(tree), LAMBDA c : c.kind # "Eof")

CallDone(sess, k) == session = sess /\ call = k /\ phase = "done"

\* The root frame after (setq x a) and (setq f (fn [] (setq x b))).
RootWithXAndF(a, b) ==
    env_set(env_set(standard_env, RootEnv, <<"x">>, Number(DigitValue(a))),
            RootEnv, <<"f">>,
            Function(<<>>, <<List(<<Symbol(SymSetq), Symbol(<<"x">>), Number(DigitValue(b))>>)>>,
                     RootEnv))[RootEnv]

\* C20: (setq sym expr) evaluates expr, binds sym to the result in the
\* innermost frame of its environment and returns the result, leaving the
\* outer frames and the other bindings as they are: the setq in the body of
\* f binds x in the frame of the call, with the root's x and f unchanged, and
\* (setq y (+ x b)) at top level adds y to the root frame.  With a number of
\* operands other than 2 it fails with ArityMismatch, with a first operand
\* that is not a symbol it fails with TypeError, and no frame is changed.
C20_SetqBindsInnermostFrame ==
    /\ \A a, b \in {"1", "2"} :
        /\ CallDone(SetqInCallSession(a, b), 3) =>
                /\ evalResult.ok /\ evalResult.val = Number(DigitValue(b))
                /\ Len(frames) = 2
                /\ frames[2].outer = RootEnv
                /\ frames[2].bindings = (<<"x">> :> Number(DigitValue(b)))
                /\ frames[RootEnv] = RootWithXAndF(a, b)
        /\ CallDone(SetqInCallSession(a, b), 4) =>
                evalResult.ok /\ evalResult.val = Number(DigitValue(a))
        /\ CallDone(SetqTwoSession(a, b), 2) =>
                /\ evalResult.ok
                /\ evalResult.val = Number(DigitValue(a) + DigitValue(b))
                /\ frames =
                    env_set(env_set(standard_env, RootEnv, <<"x">>, Number(DigitValue(a))),
                            RootEnv, <<"y">>, Number(DigitValue(a) + DigitValue(b)))
    /\ \A f \in SetqArityForms :
            CallDone(SetqFailureSession(f.src), 2) =>
                /\ ~evalResult.ok /\ evalResult.err = ArityMismatch(2, f.got)
                /\ frames = env_set(standard_env, RootEnv, <<"x">>, Number(7))
    /\ \A src \in SetqTypeForms :
            CallDone(SetqFailureSession(src), 2) =>
                /\ ~evalResult.ok /\ evalResult.err.kind = "TypeError"
                /\ frames = env_set(standard_env, RootEnv, <<"x">>, Number(7))

\* (f) has returned 2 from the setq of its body: x is 2 in the frame of the
\* call and still 1 in the root frame.
C20_Witness ==
    /\ CallDone(SetqInCallSession("1", "2"), 3)
    /\ evalResult.val = Number(2)
    /\ env_get(frames, 2, <<"x">>).val = Number(2)
    /\ env_get(frames, RootEnv, <<"x">>).val = Number(1)

\* C21: applying a closure to n evaluated arguments fails with
\* ArityMismatch{expected: len(params), got: n} when n differs from
\* len(params); otherwise the call runs in a fresh frame whose outer is the
\* frame the closure captured, not the caller's (g, created in the root frame
\* and called from the body of h, sees the root's x, not h's parameter x),
\* each parameter is bound to the argument at its position ((k a b) is a - b),
\* the body forms are evaluated in order and the value of the last one is
\* returned ((m a) with body (setq y a) (+ y 1) is a + 1).
C21_ClosureApplication ==
    /\ \A a, b \in {"1", "2"} :
        CallDone(LexicalScopeSession(a, b), 4) =>
            /\ evalResult.ok /\ evalResult.val = Number(DigitValue(a))
            /\ Len(frames) = 3
            /\ frames[2].outer = RootEnv
            /\ frames[2].bindings = (<<"x">> :> Number(DigitValue(b)))
            /\ frames[3].outer = RootEnv
            /\ frames[3].bindings = NoBindings
    /\ \A a, b \in {"1", "3"} :
        /\ CallDone(PositionalSession(a, b), 2) =>
            /\ evalResult.ok /\ evalResult.val = Number(DigitValue(a) - DigitValue(b))
            /\ frames[2].bindings =
                    (<<"a">> :> Number(DigitValue(a)) @@ <<"b">> :> Number(DigitValue(b)))
        /\ CallDone(PositionalSession(a, b), 3) =>
            ~evalResult.ok /\ evalResult.err = ArityMismatch(2, 1)
        /\ CallDone(PositionalSession(a, b), 4) =>
            ~evalResult.ok /\ evalResult.err = ArityMismatch(2, 3)
    /\ \A a \in {"1", "2"} :
        CallDone(BodyOrderSession(a), 2) =>
            /\ evalResult.ok /\ evalResult.val = Number(DigitValue(a) + 1)
            /\ frames[2].outer = RootEnv
            /\ frames[2].bindings =
                    (<<"a">> :> Number(DigitValue(a)) @@ <<"y">> :> Number(DigitValue(a)))

\* (h 2) has returned 1: g, called from the body of h, read x in the root
\* frame, not in the frame of the call of h.
C21_Witness ==
    /\ CallDone(LexicalScopeSession("1", "2"), 4)
    /\ evalResult.ok /\ evalResult.val = Number(1)
    /\ env_get(frames, 2, <<"x">>).val = Number(2)

\* The root frame of the standard environment with a bound to 1.
RootWithA == env_set(standard_env, RootEnv, <<"a">>, Number(1))

\* C22: when eval returns an error, evaluation stopped at the first offending
\* form in evaluation order (the head, then the arguments from left to
\* right; the elements of a vector from left to right): the error is that of
\* the first offending form, no later form was evaluated, and the frames
\* differ from those before the call only by the bindings of the setq forms
\* completed before the failure.
C22_ErrorStopsEvaluation ==
    /\ \A src \in {SrcVectorFails, SrcCallFails} :
        SessionDone(<<src>>) =>
            /\ ~evalResult.ok /\ evalResult.err = UnboundSymbol(<<"z","z">>)
            /\ frames = RootWithA
    /\ \A src \in {SrcHeadFails, SrcTwoUnbound} :
        SessionDone(<<src>>) =>
            /\ ~evalResult.ok /\ evalResult.err = UnboundSymbol(<<"z","z">>)
            /\ frames = standard_env
    /\ SessionDone(FailInBodySession) =>
            /\ ~evalResult.ok /\ evalResult.err = UnboundSymbol(<<"z","z">>)
            /\ DOMAIN frames[RootEnv].bindings = BuiltinNames \cup {<<"f">>, <<"a">>}
            /\ frames[RootEnv].bindings[<<"a">>] = Number(1)
            /\ Len(frames) = 2
            /\ frames[2].bindings = (<<"p">> :> Number(2) @@ <<"c">> :> Number(2))

\* The vector [(setq a 1) zz (setq b 2)] has failed on zz: a is bound, b is
\* not.
C22_Witness ==
    /\ SessionDone(<<SrcVectorFails>>)
    /\ ~evalResult.ok
    /\ env_get(frames, RootEnv, <<"a">>).found
    /\ ~env_get(frames, RootEnv, <<"b">>).found

\* eval_str(src, standard_env()) returns Ok(v).
EvalGives(src, v) == SessionDone(<<src>>) => evalResult.ok /\ ValueEq(evalResult.val, v)

\* C23: through eval_str in a standard environment (not false) returns true,
\* (not nil) returns true and (not 0) returns false; not takes exactly one
\* argument and returns true exactly when the argument evaluates to false or
\* to Nil.
C23_NotThroughEvalStr ==
    /\ EvalGives(SrcNotFalse, Boolean(TRUE))
    /\ EvalGives(SrcNotNil, Boolean(TRUE))
    /\ EvalGives(SrcNotZero, Boolean(FALSE))
    /\ EvalGives(SrcNotEqual, Boolean(TRUE))
    /\ EvalGives(SrcNotFirstOfEmpty, Boolean(TRUE))
    /\ SessionDone(<<SrcNotNoArgument>>) =>
            ~evalResult.ok /\ evalResult.err = ArityMismatch(1, 0)
    /\ SessionDone(<<SrcNotTwoArguments>>) =>
            ~evalResult.ok /\ evalResult.err = ArityMismatch(1, 2)

\* C24: = called with two or more arguments returns true iff all arguments
\* are structurally equal to one another, a Function or Macro value being
\* equal to nothing, itself included ((= f f) is false); called with fewer
\* than two arguments it fails with ArityMismatch.
C24_EqIsStructural ==
    /\ \A src \in EqualSources : EvalGives(src, Boolean(TRUE))
    /\ \A src \in UnequalSources : EvalGives(src, Boolean(FALSE))
    /\ SessionDone(EqClosureSession) => evalResult.ok /\ evalResult.val = Boolean(FALSE)
    /\ SessionDone(<<SrcEqNoArgument>>) =>
            ~evalResult.ok /\ evalResult.err = ArityMismatch(2, 0)
    /\ SessionDone(<<SrcEqOneArgument>>) =>
            ~evalResult.ok /\ evalResult.err = ArityMismatch(2, 1)

\* C25: / fails with Other("Division by zero") when its single argument is 0
\* or an argument after the first is 0 and no non-number argument comes
\* before that zero; with no argument it fails with ArityMismatch; with a
\* non-number argument met before any zero divisor it fails with TypeError;
\* otherwise it returns the reciprocal (one argument) or the left fold of
\* division ((/ 12 2 3) = 2).
C25_Division ==
    /\ \A src \in DivByZeroSources :
        SessionDone(<<src>>) =>
            ~evalResult.ok /\ evalResult.err = Other(<<"Division by zero">>)
    /\ \A src \in DivTypeSources :
        SessionDone(<<src>>) => ~evalResult.ok /\ evalResult.err.kind = "TypeError"
    /\ \A q \in DivQuotients : EvalGives(q.src, Ratio(q.num, q.den))
    /\ SessionDone(<<SrcDivNoArgument>>) =>
            ~evalResult.ok /\ evalResult.err = ArityMismatch(1, 0)

\* (/ 6 0 :a) has failed with the division by zero: the zero divisor comes
\* before the keyword.
C25_Witness ==
    /\ SessionDone(<<Div(<<<<"6">>, <<"0">>, KwA>>)>>)
    /\ evalResult.err = Other(<<"Division by zero">>)

\* C26: (macro [p1 ... pn] body...) yields a Macro value with those
\* parameters and that body; applying a Macro value in head position fails
\* with Other("macro application not implemented"), after the head and the
\* arguments were evaluated (the argument (setq a 1) has bound a, and an
\* argument that fails decides the error) and without evaluating the body of
\* the macro (b is not bound); applying any other value that is not a
\* function fails with NotCallable.
C26_MacroApplication ==
    /\ SessionDone(<<SrcMacro>>) =>
            /\ evalResult.ok
            /\ evalResult.val =
                    Macro(<<<<"x">>>>, <<List(<<Symbol(SymQuote), Symbol(<<"x">>)>>)>>, RootEnv)
            /\ frames = standard_env
    /\ SessionDone(MacroApplySession) =>
            /\ ~evalResult.ok
            /\ evalResult.err = Other(<<"macro application not implemented">>)
            /\ Len(frames) = 1
            /\ env_get(frames, RootEnv, <<"a">>).found
            /\ ~env_get(frames, RootEnv, <<"b">>).found
    /\ SessionDone(<<SrcMacroBadArgument>>) =>
            ~evalResult.ok /\ evalResult.err = UnboundSymbol(<<"z","z">>)
    /\ \A src \in NotCallableSources :
            SessionDone(<<src>>) => ~evalResult.ok /\ evalResult.err.kind = "NotCallable"

\* tokenize(input) has returned.
Tokenized == phase # "lex"

\* The tokens of the input are one token of kind k covering the whole input,
\* and Eof.
OneToken(k) ==
    /\ Len(tokens) = 2
    /\ tokens[1] = Token(k, input, 0, Len(input))
    /\ tokens[2].kind = "Eof"

\* C27: a `-` immediately followed by an ASCII digit starts a number: "-5"
\* and "-1.5" are one Number token each, not a Symbol token; a `-` that no
\* digit follows starts a Symbol ("-", "-a", and the `-` of "(- 5 2)").
C27_MinusDigitIsNumber ==
    /\ \A src \in NegativeNumberSources : (input = src /\ Tokenized) => OneToken("Number")
    /\ \A src \in MinusSymbolSources : (input = src /\ Tokenized) => OneToken("Symbol")
    /\ (input = SrcMinusCall /\ Tokenized) =>
            /\ Len(tokens) = 6
            /\ tokens[2] = Token("Symbol", <<"-">>, 1, 2)
            /\ tokens[3] = Token("Number", <<"5">>, 3, 4)

\* C28: a backslash followed by the full name of a named character
\* (newline, return, space, tab, formfeed, backspace) is one Character token
\* covering the backslash and the whole name; a backslash followed by u and
\* four hex digits is one Character token; \u followed by fewer than four
\* hex digits is an Error token.
C28_CharacterLiterals ==
    /\ \A src \in NamedCharacterSources \cup UnicodeSources :
            (input = src /\ Tokenized) => OneToken("Character")
    /\ \A src \in ShortUnicodeSources :
            (input = src /\ Tokenized) => tokens[1].kind = "Error" /\ tokens[1].start = 0

\* The offsets of the input that lie in no token.
Uncovered ==
    {p \in 0..(Len(input) - 1) :
        ~\E i \in 1..Len(tokens) : tokens[i].start <= p /\ p < tokens[i].end}

\* C29: for every token t of tokenize(s), t.text is the slice
\* s[t.start, t.end) and t.start <= t.end <= len(s); the tokens are in
\* increasing offset order without overlap (the end of a token is at most
\* the start of the next one); and, once tokenize has returned, every offset
\* of s that lies in no token holds a whitespace character.
C29_TokensAreSlices ==
    /\ \A i \in 1..Len(tokens) :
            /\ tokens[i].start <= tokens[i].end
            /\ tokens[i].end <= Len(input)
            /\ tokens[i].text = Slice(input, tokens[i].start, tokens[i].end)
    /\ \A i \in 1..(Len(tokens) - 1) :
            /\ tokens[i].end <= tokens[i + 1].start
            /\ tokens[i].start <= tokens[i + 1].start
    /\ Tokenized => \A p \in Uncovered : is_whitespace(input[p + 1])

\* tokenize("1 ,") has returned three tokens: 1, the comma and Eof, with the
\* space in no token.
C29_Witness ==
    /\ Tokenized
    /\ input = <<"1", " ", ",">>
    /\ Len(tokens) = 3
    /\ tokens[2].start = 2
    /\ Uncovered = {1}

\* The names bound in the frame f, the builtins apart, with their values.
OwnBindings(f) ==
    [name \in (DOMAIN frames[f].bindings) \ BuiltinNames |-> frames[f].bindings[name]]

\* The closure values of a frame are told apart from the numbers.
NumberBindings(f) ==
    [name \in {n \in DOMAIN OwnBindings(f) : OwnBindings(f)[n].t = "Number"} |->
        OwnBindings(f)[name].num]

\* C30: evaluating the body of a closure never changes a frame that existed
\* before the call: the parameters and every setq of the body are written in
\* the fresh call frame only, so that after the call has returned, with a
\* value or with an error, the caller's frame and the frame the closure
\* captured hold the bindings they held once the arguments were evaluated,
\* also when a parameter or the target of a setq has the name of an outer
\* binding.
C30_BodyWritesCallFrameOnly ==
    /\ \A k \in 4..6 :
        CallDone(ShadowSession(<<"2">>), k) =>
            /\ evalResult.ok
            /\ evalResult.val = (IF k = 4 THEN Number(2) ELSE Number(1))
            /\ NumberBindings(RootEnv) = (<<"x">> :> 1 @@ <<"y">> :> 1)
            /\ DOMAIN OwnBindings(RootEnv) = {<<"x">>, <<"y">>, <<"f">>}
            /\ Len(frames) = 2
            /\ NumberBindings(2) = (<<"x">> :> 3 @@ <<"y">> :> 2)
    /\ \A k \in 4..6 :
        CallDone(ShadowSession(Setq(<<"x">>, <<"2">>)), k) =>
            /\ evalResult.ok
            /\ evalResult.val = (IF k = 6 THEN Number(1) ELSE Number(2))
            /\ NumberBindings(RootEnv) = (<<"x">> :> 2 @@ <<"y">> :> 1)
            /\ NumberBindings(2) = (<<"x">> :> 3 @@ <<"y">> :> 2)
    /\ CallDone(FailingBodySession, 3) =>
            /\ ~evalResult.ok /\ evalResult.err = UnboundSymbol(<<"z","z">>)
            /\ NumberBindings(RootEnv) = (<<"y">> :> 1)
            /\ DOMAIN OwnBindings(RootEnv) = {<<"y">>, <<"g">>}
    /\ CallDone(FailingBodySession, 4) => evalResult.ok /\ evalResult.val = Number(1)
    /\ \A k \in 3..4 :
        CallDone(CapturedFrameSession, k) =>
            /\ evalResult.ok /\ evalResult.val = Number(7)
            /\ DOMAIN OwnBindings(RootEnv) = {<<"m","k">>, <<"h">>}
            /\ frames[2].outer = RootEnv
            /\ NumberBindings(2) = (<<"x">> :> 1)
            /\ frames[3].outer = 2
            /\ NumberBindings(3) = (<<"x">> :> 7)

\* (f 2) has returned: x and y are 3 and 2 in the frame of the call and still
\* 1 and 1 in the root frame.
C30_Witness ==
    /\ CallDone(ShadowSession(<<"2">>), 4)
    /\ evalResult.ok
    /\ env_get(frames, 2, <<"x">>).val = Number(3)
    /\ env_get(frames, RootEnv, <<"x">>).val = Number(1)
    /\ env_get(frames, RootEnv, <<"y">>).val = Number(1)
====
